---------------------------- MODULE Spec2Model ----------------------------
(***************************************************************************)
(* Model of the HLSL translator front end: the recursive-descent parser    *)
(* (src/src/HLSLParser.cpp) and the AST printer (src/src/ASTPrinter.cpp)   *)
(* driving the Logger interface (src/inc/HT/Logger.h).                     *)
(*                                                                         *)
(* The source text is a sequence of tokens.  The parser state that every   *)
(* Parse function threads is a record                                      *)
(*    src    the tokens the scanner delivers                               *)
(*    cur    number of scanner_.Next() calls made; tkn_ is src[cur]        *)
(*    nextId allocation counter: the identity (address) of the next node   *)
(*    err    a std::runtime_error has been thrown and is propagating       *)
(*    msg    its message,  errCur: the value of cur when it was thrown     *)
(* A Parse function applied to a state with err set returns at once:       *)
(* that is the propagation of the C++ exception to ParseSource.            *)
(***************************************************************************)
EXTENDS Integers, Sequences, FiniteSets

VARIABLES
    src,      \* the source: the tokens the scanner will deliver
    phase,    \* "scan" | "parsed" | "dumped"
    program,  \* what ParseSource returned (Null: nullptr)
    parser,   \* the parser's state when ParseSource returned
    log,      \* the calls made on the attached Logger, in order
    ctx       \* which family of sources this behaviour explores

vars == <<src, phase, program, parser, log, ctx>>

----------------------------------------------------------------------------
(* Tokens *)

Tok(type, spell) == [type |-> type, spell |-> spell]

EOS == Tok("EndOfStream", "")

\* the value of allowComma in a call ParseExpr() that passes no argument
DefaultAllowComma == FALSE

Null == [type |-> "Null"]

IsNull(n) == n.type = "Null"

Ret(p, v) == [v |-> v, p |-> p]

\* tkn_: the most recently fetched token; EndOfStream is returned again on
\* every read past the end of the source
Tkn(p) == IF p.cur >= 1 /\ p.cur <= Len(p.src) THEN p.src[p.cur] ELSE EOS

Type(p) == Tkn(p).type

Is(p, type) == Tkn(p).type = type

IsSpell(p, type, spell) == Tkn(p).type = type /\ Tkn(p).spell = spell

\* Error: throw std::runtime_error
Error(p, msg) ==
    IF p.err THEN p
    ELSE [p EXCEPT !.err = TRUE, !.msg = msg, !.errCur = p.cur]

ErrorUnexpected(p) == Error(p, "unexpected token")

ErrorUnexpectedHint(p, hint) == Error(p, hint)

\* AcceptIt: tkn_ = scanner_.Next(); returns the previous token
AcceptIt(p) ==
    IF p.err THEN Ret(p, EOS)
    ELSE Ret([p EXCEPT !.cur = p.cur + 1], Tkn(p))

\* Variant of Accept that fetches the next token before it reports the
\* mismatch: the parser position moves past the offending token.
AcceptFetchingFirst(p, type) ==
    IF p.err THEN Ret(p, EOS)
    ELSE IF Tkn(p).type # type
    THEN Ret([ErrorUnexpected(p) EXCEPT !.cur = p.cur + 1], EOS)
    ELSE AcceptIt(p)

\* Accept(type)
Accept(p, type) ==
    IF p.err THEN Ret(p, EOS)
    ELSE IF Tkn(p).type # type THEN Ret(ErrorUnexpected(p), EOS)
    ELSE AcceptIt(p)

\* Accept(type, spell)
AcceptSpell(p, type, spell) ==
    IF p.err THEN Ret(p, EOS)
    ELSE IF Tkn(p).type # type THEN Ret(ErrorUnexpected(p), EOS)
    ELSE IF Tkn(p).spell # spell
         THEN Ret(Error(p, "unexpected token spelling"), EOS)
    ELSE AcceptIt(p)

Semi(p) == Accept(p, "Semicolon").p

IsDataType(p) ==
    Is(p, "ScalarType") \/ Is(p, "VectorType") \/ Is(p, "MatrixType")
        \/ Is(p, "Texture") \/ Is(p, "Sampler")

IsLiteral(p) ==
    Is(p, "BoolLiteral") \/ Is(p, "IntLiteral") \/ Is(p, "FloatLiteral")

IsPrimaryExpr(p) ==
    IsLiteral(p) \/ Is(p, "Ident") \/ Is(p, "UnaryOp")
        \/ IsSpell(p, "BinaryOp", "-") \/ Is(p, "LBracket")

\* Make<T>(): allocate a node; id stands for its address, pos for scanner_.Pos()
Make(p) ==
    IF p.err THEN [p |-> p, id |-> 0, pos |-> 0]
    ELSE [p |-> [p EXCEPT !.nextId = p.nextId + 1], id |-> p.nextId, pos |-> p.cur]

----------------------------------------------------------------------------
(* Parse functions.  Each takes the parser state (and the arguments of the *)
(* C++ function) and returns Ret(state, value).  The while loops of the    *)
(* source are the ...Loop operators, with the loop's accumulator.  One     *)
(* Parse function calls another through Call, defined after them all.      *)

RECURSIVE Call(_, _, _)

\* ParseRegister(parseColon): ': register(IDENT)'
ParseRegister(p0, parseColon) ==
    IF p0.err THEN Ret(p0, "") ELSE
    LET p1 == IF parseColon THEN Accept(p0, "Colon").p ELSE p0
        p2 == Accept(p1, "Register").p
        p3 == Accept(p2, "LBracket").p
        r4 == Accept(p3, "Ident")
        p5 == Accept(r4.p, "RBracket").p
    IN  Ret(p5, r4.v.spell)

\* ParseSemantic
ParseSemantic(p0) ==
    IF p0.err THEN Ret(p0, "") ELSE
    LET p1 == Accept(p0, "Colon").p
        r2 == Accept(p1, "Ident")
    IN  Ret(r2.p, r2.v.spell)

\* ParsePackOffset(parseColon): ': packoffset( IDENT (.COMPONENT)? )'
ParsePackOffset(p0, parseColon) ==
    IF p0.err THEN Ret(p0, Null) ELSE
    LET m  == Make(p0)
        p1 == IF parseColon THEN Accept(m.p, "Colon").p ELSE m.p
        p2 == Accept(p1, "PackOffset").p
        p3 == Accept(p2, "LBracket").p
        r4 == Accept(p3, "Ident")
        r5 == IF Is(r4.p, "Dot")
              THEN Accept(AcceptIt(r4.p).p, "Ident")
              ELSE Ret(r4.p, Tok("", ""))
        p6 == Accept(r5.p, "RBracket").p
    IN  Ret(p6, [type |-> "PackOffset", id |-> m.id, pos |-> m.pos,
                 registerName |-> r4.v.spell, vectorComponent |-> r5.v.spell])

\* ParseVarSemantic
ParseVarSemantic(p0) ==
    IF p0.err THEN Ret(p0, Null) ELSE
    LET m  == Make(p0)
        p1 == Accept(m.p, "Colon").p
        rr == IF Is(p1, "Register") THEN Call("ParseRegister", p1, <<FALSE>>) ELSE Ret(p1, "")
        rp == IF ~Is(p1, "Register") /\ Is(p1, "PackOffset")
              THEN Call("ParsePackOffset", p1, <<FALSE>>) ELSE Ret(p1, Null)
        rs == IF ~Is(p1, "Register") /\ ~Is(p1, "PackOffset")
              THEN Accept(p1, "Ident") ELSE Ret(p1, Tok("", ""))
        p2 == IF Is(p1, "Register") THEN rr.p
              ELSE IF Is(p1, "PackOffset") THEN rp.p ELSE rs.p
    IN  IF rr.p.err THEN Ret(rr.p, Null)
        ELSE IF rp.p.err THEN Ret(rp.p, Null)
        ELSE Ret(p2, [type |-> "VarSemantic", id |-> m.id, pos |-> m.pos,
                 semantic |-> rs.v.spell, registerName |-> rr.v,
                 packOffset |-> rp.v])

\* ParseVarSemanticList
ParseVarSemanticList(p, semantics) ==
    IF p.err \/ ~Is(p, "Colon") THEN Ret(p, semantics)
    ELSE LET r == Call("ParseVarSemantic", p, <<>>)
         IN  IF r.p.err THEN Ret(r.p, semantics)
             ELSE Call("ParseVarSemanticList", r.p, <<Append(semantics, r.v)>>)

\* ParseBufferDeclIdent
ParseBufferDeclIdent(p0) ==
    IF p0.err THEN Ret(p0, Null) ELSE
    LET m  == Make(p0)
        r1 == Accept(m.p, "Ident")
        r2 == IF Is(r1.p, "Colon") THEN Call("ParseRegister", r1.p, <<TRUE>>) ELSE Ret(r1.p, "")
    IN  IF r2.p.err THEN Ret(r2.p, Null)
        ELSE Ret(r2.p, [type |-> "BufferDeclIdent", id |-> m.id, pos |-> m.pos,
                   ident |-> r1.v.spell, registerName |-> r2.v])

\* ParseBufferDeclIdentList
ParseBufferDeclIdentListLoop(p, bufferIdents) ==
    IF p.err \/ ~Is(p, "Comma") THEN Ret(p, bufferIdents)
    ELSE LET r == Call("ParseBufferDeclIdent", AcceptIt(p).p, <<>>)
         IN  IF r.p.err THEN Ret(r.p, bufferIdents)
             ELSE Call("ParseBufferDeclIdentListLoop", r.p, <<Append(bufferIdents, r.v)>>)

ParseBufferDeclIdentList(p0) ==
    IF p0.err THEN Ret(p0, <<>>) ELSE
    LET r == Call("ParseBufferDeclIdent", p0, <<>>)
    IN  IF r.p.err THEN Ret(r.p, <<>>)
        ELSE Call("ParseBufferDeclIdentListLoop", r.p, << <<r.v>> >>)

\* ParseTextureDecl
ParseTextureDecl(p0) ==
    IF p0.err THEN Ret(p0, Null) ELSE
    LET m  == Make(p0)
        r1 == Accept(m.p, "Texture")
        r2 == IF IsSpell(r1.p, "BinaryOp", "<")
              THEN Accept(AcceptIt(r1.p).p, "ScalarType")
              ELSE Ret(r1.p, Tok("", ""))
        p3 == IF IsSpell(r1.p, "BinaryOp", "<")
              THEN AcceptSpell(r2.p, "BinaryOp", ">").p
              ELSE r2.p
        r4 == Call("ParseBufferDeclIdentList", p3, <<>>)
        p5 == Semi(r4.p)
    IN  IF r4.p.err THEN Ret(r4.p, Null)
        ELSE Ret(p5, [type |-> "TextureDecl", id |-> m.id, pos |-> m.pos,
                 textureType |-> r1.v.spell, colorType |-> r2.v.spell,
                 names |-> r4.v])

\* ParseSamplerDecl
ParseSamplerDecl(p0) ==
    IF p0.err THEN Ret(p0, Null) ELSE
    LET m  == Make(p0)
        r1 == Accept(m.p, "Sampler")
        r2 == Call("ParseBufferDeclIdentList", r1.p, <<>>)
        p3 == Semi(r2.p)
    IN  IF r2.p.err THEN Ret(r2.p, Null)
        ELSE Ret(p3, [type |-> "SamplerDecl", id |-> m.id, pos |-> m.pos,
                 samplerType |-> r1.v.spell, names |-> r2.v])

\* ParseDirectiveDecl
ParseDirectiveDecl(p0) ==
    IF p0.err THEN Ret(p0, Null) ELSE
    LET m  == Make(p0)
        r1 == Accept(m.p, "Directive")
    IN  Ret(r1.p, [type |-> "DirectiveDecl", id |-> m.id, pos |-> m.pos,
                   line |-> r1.v.spell])

\* ParseNullStmnt
ParseNullStmnt(p0) ==
    IF p0.err THEN Ret(p0, Null) ELSE
    LET m == Make(p0)
    IN  Ret(Semi(m.p), [type |-> "NullStmnt", id |-> m.id, pos |-> m.pos])

\* ParseDirectiveStmnt
ParseDirectiveStmnt(p0) ==
    IF p0.err THEN Ret(p0, Null) ELSE
    LET m  == Make(p0)
        r1 == Accept(m.p, "Directive")
    IN  Ret(r1.p, [type |-> "DirectiveStmnt", id |-> m.id, pos |-> m.pos,
                   line |-> r1.v.spell])

\* ParseCtrlTransferStmnt
ParseCtrlTransferStmnt(p0) ==
    IF p0.err THEN Ret(p0, Null) ELSE
    LET m  == Make(p0)
        r1 == Accept(m.p, "CtrlTransfer")
    IN  Ret(Semi(r1.p), [type |-> "CtrlTransferStmnt", id |-> m.id, pos |-> m.pos,
                         instruction |-> r1.v.spell])

\* ParseLiteralExpr
ParseLiteralExpr(p0) ==
    IF p0.err THEN Ret(p0, Null) ELSE
    LET p1 == IF ~IsLiteral(p0)
              THEN ErrorUnexpectedHint(p0, "expected literal expression") ELSE p0
        m  == Make(p1)
        r2 == AcceptIt(m.p)
    IN  Ret(r2.p, [type |-> "LiteralExpr", id |-> m.id, pos |-> m.pos,
                   literal |-> r2.v.spell])

\* Variant of the loop of ParseProgram that ends after one global
\* declaration, whatever the current token is.
ParseProgramLoopOneDecl(p, globalDecls) ==
    IF p.err \/ Is(p, "EndOfStream") \/ globalDecls # <<>> THEN Ret(p, globalDecls)
    ELSE LET r == Call("ParseGlobalDecl", p, <<>>)
         IN  IF r.p.err THEN Ret(r.p, globalDecls)
             ELSE Call("ParseProgramLoop", r.p, <<Append(globalDecls, r.v)>>)

\* ParseProgram: while (!Is(EndOfStream)) globalDecls.push_back(ParseGlobalDecl())
ParseProgramLoop(p, globalDecls) ==
    IF p.err \/ Is(p, "EndOfStream") THEN Ret(p, globalDecls)
    ELSE LET r == Call("ParseGlobalDecl", p, <<>>)
         IN  IF r.p.err THEN Ret(r.p, globalDecls)
             ELSE Call("ParseProgramLoop", r.p, <<Append(globalDecls, r.v)>>)

ParseProgram(p0) ==
    IF p0.err THEN Ret(p0, Null) ELSE
    LET m  == Make(p0)
        r1 == Call("ParseProgramLoop", m.p, << <<>> >>)
    IN  IF r1.p.err THEN Ret(r1.p, Null)
        ELSE Ret(r1.p, [type |-> "Program", id |-> m.id, pos |-> m.pos,
                   globalDecls |-> r1.v])

\* ParseCodeBlock
ParseCodeBlock(p0) ==
    IF p0.err THEN Ret(p0, Null) ELSE
    LET m  == Make(p0)
        p1 == Accept(m.p, "LCurly").p
        r2 == Call("ParseStmntList", p1, << <<>> >>)
        p3 == Accept(r2.p, "RCurly").p
    IN  IF r2.p.err THEN Ret(r2.p, Null)
        ELSE Ret(p3, [type |-> "CodeBlock", id |-> m.id, pos |-> m.pos,
                 stmnts |-> r2.v])

\* ParseFunctionCall(varIdent)
ParseFunctionCall(p0, varIdent) ==
    IF p0.err THEN Ret(p0, Null) ELSE
    LET m  == Make(p0)
        r1 == IF ~IsNull(varIdent) THEN Ret(m.p, varIdent)
              ELSE IF IsDataType(m.p)
              THEN LET mi == Make(m.p)
                       ri == AcceptIt(mi.p)
                   IN  Ret(ri.p, [type |-> "VarIdent", id |-> mi.id, pos |-> mi.pos,
                                  ident |-> ri.v.spell, arrayIndices |-> <<>>,
                                  next |-> Null])
              ELSE Call("ParseVarIdent", m.p, <<>>)
        r2 == Call("ParseArgumentList", r1.p, <<>>)
    IN  IF r1.p.err THEN Ret(r1.p, Null)
        ELSE IF r2.p.err THEN Ret(r2.p, Null)
        ELSE Ret(r2.p, [type |-> "FunctionCall", id |-> m.id, pos |-> m.pos,
                   name |-> r1.v, arguments |-> r2.v])

\* ParseStructure
ParseStructure(p0) ==
    IF p0.err THEN Ret(p0, Null) ELSE
    LET m  == Make(p0)
        p1 == Accept(m.p, "Struct").p
        r2 == Accept(p1, "Ident")
        r3 == Call("ParseVarDeclStmntList", r2.p, <<>>)
    IN  IF r3.p.err THEN Ret(r3.p, Null)
        ELSE Ret(r3.p, [type |-> "Structure", id |-> m.id, pos |-> m.pos,
                   name |-> r2.v.spell, members |-> r3.v])

\* ParseParameter: the modifier loop; ast carries the three modifier fields
ParseParameterModifiers(p, ast) ==
    IF p.err THEN Ret(p, ast)
    ELSE IF Is(p, "InputModifier")
    THEN LET r == AcceptIt(p)
         IN  Call("ParseParameterModifiers", r.p, <<[ast EXCEPT !.inputModifier = r.v.spell]>>)
    ELSE IF Is(p, "TypeModifier")
    THEN LET r == AcceptIt(p)
         IN  Call("ParseParameterModifiers", r.p, <<[ast EXCEPT !.typeModifiers = Append(@, r.v.spell)]>>)
    ELSE IF Is(p, "StorageModifier")
    THEN LET r == AcceptIt(p)
         IN  Call("ParseParameterModifiers", r.p, <<[ast EXCEPT !.storageModifiers = Append(@, r.v.spell)]>>)
    ELSE Ret(p, ast)

ParseParameter(p0) ==
    IF p0.err THEN Ret(p0, Null) ELSE
    LET m  == Make(p0)
        r1 == Call("ParseParameterModifiers", m.p, <<[inputModifier |-> "", typeModifiers |-> <<>>,
                   storageModifiers |-> <<>>]>>)
        r2 == Call("ParseVarType", r1.p, <<FALSE>>)
        r3 == Call("ParseVarDecl", r2.p, <<>>)
    IN  IF r1.p.err THEN Ret(r1.p, Null)
        ELSE IF r2.p.err THEN Ret(r2.p, Null)
        ELSE IF r3.p.err THEN Ret(r3.p, Null)
        ELSE Ret(r3.p, [type |-> "VarDeclStmnt", id |-> m.id, pos |-> m.pos,
                   inputModifier |-> r1.v.inputModifier,
                   typeModifiers |-> r1.v.typeModifiers,
                   storageModifiers |-> r1.v.storageModifiers,
                   varType |-> r2.v, varDecls |-> <<r3.v>>])

\* ParseSwitchCase
ParseSwitchCaseStmnts(p, stmnts) ==
    IF p.err \/ Is(p, "Case") \/ Is(p, "Default") \/ Is(p, "RCurly")
    THEN Ret(p, stmnts)
    ELSE LET r == Call("ParseStmnt", p, <<>>)
         IN  IF r.p.err THEN Ret(r.p, stmnts)
             ELSE Call("ParseSwitchCaseStmnts", r.p, <<Append(stmnts, r.v)>>)

ParseSwitchCase(p0) ==
    IF p0.err THEN Ret(p0, Null) ELSE
    LET m  == Make(p0)
        r1 == IF Is(m.p, "Case")
              THEN Call("ParseExpr", Accept(m.p, "Case").p, <<DefaultAllowComma, Null>>)
              ELSE Ret(Accept(m.p, "Default").p, Null)
        p2 == Accept(r1.p, "Colon").p
        r3 == Call("ParseSwitchCaseStmnts", p2, << <<>> >>)
    IN  IF r1.p.err THEN Ret(r1.p, Null)
        ELSE IF r3.p.err THEN Ret(r3.p, Null)
        ELSE Ret(r3.p, [type |-> "SwitchCase", id |-> m.id, pos |-> m.pos,
                   expr |-> r1.v, stmnts |-> r3.v])

\* ParseGlobalDecl
\* Variant of ParseGlobalDecl that returns no declaration at a stray
\* semicolon, leaving the semicolon as the current token.
ParseGlobalDeclIgnoringSemicolon(p) ==
    IF p.err \/ Is(p, "Semicolon") THEN Ret(p, Null)
    ELSE CASE Type(p) = "Sampler"       -> Call("ParseSamplerDecl", p, <<>>)
           [] Type(p) = "Texture"       -> Call("ParseTextureDecl", p, <<>>)
           [] Type(p) = "UniformBuffer" -> Call("ParseUniformBufferDecl", p, <<>>)
           [] Type(p) = "Struct"        -> Call("ParseStructDecl", p, <<>>)
           [] Type(p) = "Directive"     -> Call("ParseDirectiveDecl", p, <<>>)
           [] OTHER                     -> Call("ParseFunctionDecl", p, <<>>)

ParseGlobalDecl(p) ==
    IF p.err THEN Ret(p, Null)
    ELSE CASE Type(p) = "Sampler"       -> Call("ParseSamplerDecl", p, <<>>)
           [] Type(p) = "Texture"       -> Call("ParseTextureDecl", p, <<>>)
           [] Type(p) = "UniformBuffer" -> Call("ParseUniformBufferDecl", p, <<>>)
           [] Type(p) = "Struct"        -> Call("ParseStructDecl", p, <<>>)
           [] Type(p) = "Directive"     -> Call("ParseDirectiveDecl", p, <<>>)
           [] OTHER                     -> Call("ParseFunctionDecl", p, <<>>)

\* ParseFunctionDecl
ParseFunctionDecl(p0) ==
    IF p0.err THEN Ret(p0, Null) ELSE
    LET m  == Make(p0)
        r1 == Call("ParseAttributeList", m.p, << <<>> >>)
        r2 == Call("ParseVarType", r1.p, <<TRUE>>)
        r3 == Accept(r2.p, "Ident")
        r4 == Call("ParseParameterList", r3.p, <<>>)
        r5 == IF Is(r4.p, "Colon") THEN Call("ParseSemantic", r4.p, <<>>) ELSE Ret(r4.p, "")
        r6 == IF Is(r5.p, "Semicolon") THEN Ret(AcceptIt(r5.p).p, Null)
              ELSE Call("ParseCodeBlock", r5.p, <<>>)
    IN  IF r1.p.err THEN Ret(r1.p, Null)
        ELSE IF r2.p.err THEN Ret(r2.p, Null)
        ELSE IF r4.p.err THEN Ret(r4.p, Null)
        ELSE IF r5.p.err THEN Ret(r5.p, Null)
        ELSE IF r6.p.err THEN Ret(r6.p, Null)
        ELSE Ret(r6.p, [type |-> "FunctionDecl", id |-> m.id, pos |-> m.pos,
                   attribs |-> r1.v, returnType |-> r2.v, name |-> r3.v.spell,
                   parameters |-> r4.v, semantic |-> r5.v, codeBlock |-> r6.v])

\* ParseUniformBufferDecl
ParseUniformBufferDecl(p0) ==
    IF p0.err THEN Ret(p0, Null) ELSE
    LET m  == Make(p0)
        r1 == Accept(m.p, "UniformBuffer")
        r2 == Accept(r1.p, "Ident")
        r3 == IF Is(r2.p, "Colon") THEN Call("ParseRegister", r2.p, <<TRUE>>) ELSE Ret(r2.p, "")
        r4 == Call("ParseVarDeclStmntList", r3.p, <<>>)
        p5 == Semi(r4.p)
    IN  IF r3.p.err THEN Ret(r3.p, Null)
        ELSE IF r4.p.err THEN Ret(r4.p, Null)
        ELSE Ret(p5, [type |-> "UniformBufferDecl", id |-> m.id, pos |-> m.pos,
                 bufferType |-> r1.v.spell, name |-> r2.v.spell,
                 registerName |-> r3.v, members |-> r4.v])

\* ParseStructDecl
ParseStructDecl(p0) ==
    IF p0.err THEN Ret(p0, Null) ELSE
    LET m  == Make(p0)
        r1 == Call("ParseStructure", m.p, <<>>)
        p2 == Semi(r1.p)
    IN  IF r1.p.err THEN Ret(r1.p, Null)
        ELSE Ret(p2, [type |-> "StructDecl", id |-> m.id, pos |-> m.pos,
                 structure |-> r1.v])

\* ParseAttribute: the argument loop, then the attribute
ParseAttributeArgs(p, arguments) ==
    IF p.err THEN Ret(p, arguments)
    ELSE LET r == Call("ParseExpr", p, <<DefaultAllowComma, Null>>)
         IN  IF r.p.err THEN Ret(r.p, arguments)
             ELSE IF Is(r.p, "Comma")
             THEN Call("ParseAttributeArgs", AcceptIt(r.p).p, <<Append(arguments, r.v)>>)
             ELSE Ret(r.p, Append(arguments, r.v))

ParseAttribute(p0) ==
    IF p0.err THEN Ret(p0, Null) ELSE
    LET m  == Make(p0)
        p1 == Accept(m.p, "LParen").p
        mi == Make(p1)
        r2 == Accept(mi.p, "Ident")
        r3 == IF Is(r2.p, "LBracket")
              THEN LET pa == AcceptIt(r2.p).p
                       ra == IF ~Is(pa, "RBracket") THEN Call("ParseAttributeArgs", pa, << <<>> >>)
                             ELSE Ret(pa, <<>>)
                   IN  IF ra.p.err THEN Ret(ra.p, <<>>)
                       ELSE Ret(Accept(ra.p, "RBracket").p, ra.v)
              ELSE Ret(r2.p, <<>>)
        p4 == Accept(r3.p, "RParen").p
    IN  IF r3.p.err THEN Ret(r3.p, Null)
        ELSE Ret(p4, [type |-> "FunctionCall", id |-> m.id, pos |-> m.pos,
                 name |-> [type |-> "VarIdent", id |-> mi.id, pos |-> mi.pos,
                           ident |-> r2.v.spell, arrayIndices |-> <<>>,
                           next |-> Null],
                 arguments |-> r3.v])

\* ParseArrayDimension
ParseArrayDimension(p0) ==
    IF p0.err THEN Ret(p0, Null) ELSE
    LET p1 == Accept(p0, "LParen").p
        r2 == Call("ParseExpr", p1, <<DefaultAllowComma, Null>>)
        p3 == Accept(r2.p, "RParen").p
    IN  IF r2.p.err THEN Ret(r2.p, Null)
        ELSE Ret(p3, r2.v)

\* Variant of ParseInitializer that lets the initializer be a comma list.
ParseInitializerAllowingComma(p0) ==
    IF p0.err THEN Ret(p0, Null) ELSE
    LET p1 == AcceptSpell(p0, "AssignOp", "=").p
    IN  Call("ParseExpr", p1, <<TRUE, Null>>)

\* ParseInitializer
ParseInitializer(p0) ==
    IF p0.err THEN Ret(p0, Null) ELSE
    LET p1 == AcceptSpell(p0, "AssignOp", "=").p
    IN  Call("ParseExpr", p1, <<DefaultAllowComma, Null>>)

\* ParseVarIdent
ParseVarIdent(p0) ==
    IF p0.err THEN Ret(p0, Null) ELSE
    LET m  == Make(p0)
        r1 == Accept(m.p, "Ident")
        r2 == Call("ParseArrayDimensionList", r1.p, << <<>> >>)
        r3 == IF Is(r2.p, "Dot") THEN Call("ParseVarIdent", AcceptIt(r2.p).p, <<>>)
              ELSE Ret(r2.p, Null)
    IN  IF r2.p.err THEN Ret(r2.p, Null)
        ELSE IF r3.p.err THEN Ret(r3.p, Null)
        ELSE Ret(r3.p, [type |-> "VarIdent", id |-> m.id, pos |-> m.pos,
                   ident |-> r1.v.spell, arrayIndices |-> r2.v, next |-> r3.v])

\* ParseVarType(parseVoidType)
ParseVarType(p0, parseVoidType) ==
    IF p0.err THEN Ret(p0, Null) ELSE
    LET m  == Make(p0)
        ast == [type |-> "VarType", id |-> m.id, pos |-> m.pos,
                baseType |-> "", structType |-> Null, symbolRef |-> 0]
    IN  IF Is(m.p, "Void")
        THEN IF parseVoidType
             THEN LET r == AcceptIt(m.p)
                  IN  Ret(r.p, [ast EXCEPT !.baseType = r.v.spell])
             ELSE Ret(Error(m.p, "'void' type not allowed in this context"), ast)
        ELSE IF Is(m.p, "Ident") \/ IsDataType(m.p)
        THEN LET r == AcceptIt(m.p)
             IN  Ret(r.p, [ast EXCEPT !.baseType = r.v.spell])
        ELSE IF Is(m.p, "Struct")
        THEN LET r == Call("ParseStructure", m.p, <<>>)
             IN  IF r.p.err THEN Ret(r.p, ast) ELSE
                 Ret(r.p, [ast EXCEPT !.structType = r.v,
                                      !.symbolRef = IF IsNull(r.v) THEN 0 ELSE r.v.id])
        ELSE Ret(ErrorUnexpectedHint(m.p, "expected type specifier"), ast)

\* ParseVarDecl
ParseVarDecl(p0) ==
    IF p0.err THEN Ret(p0, Null) ELSE
    LET m  == Make(p0)
        r1 == Accept(m.p, "Ident")
        r2 == Call("ParseArrayDimensionList", r1.p, << <<>> >>)
        r3 == Call("ParseVarSemanticList", r2.p, << <<>> >>)
        r4 == IF IsSpell(r3.p, "AssignOp", "=") THEN Call("ParseInitializer", r3.p, <<>>)
              ELSE Ret(r3.p, Null)
    IN  IF r2.p.err THEN Ret(r2.p, Null)
        ELSE IF r3.p.err THEN Ret(r3.p, Null)
        ELSE IF r4.p.err THEN Ret(r4.p, Null)
        ELSE Ret(r4.p, [type |-> "VarDecl", id |-> m.id, pos |-> m.pos,
                   name |-> r1.v.spell, arrayDims |-> r2.v, semantics |-> r3.v,
                   initializer |-> r4.v, declStmntRef |-> 0])

----------------------------------------------------------------------------
(* Statements *)

\* Variant of ParseStmnt without the case for Tokens::Ident: a statement
\* that begins with an identifier falls through to ParseExprStmnt.
ParseStmntWithoutIdentCase(p0) ==
    IF p0.err THEN Ret(p0, Null) ELSE
    LET ra == IF Is(p0, "LParen") THEN Call("ParseAttributeList", p0, << <<>> >>) ELSE Ret(p0, <<>>)
        p  == ra.p
        attribs == ra.v
    IN  IF p.err THEN Ret(p, Null)
        ELSE CASE Type(p) = "Semicolon"    -> Call("ParseNullStmnt", p, <<>>)
               [] Type(p) = "Directive"    -> Call("ParseDirectiveStmnt", p, <<>>)
               [] Type(p) = "LCurly"       -> Call("ParseCodeBlockStmnt", p, <<>>)
               [] Type(p) = "Return"       -> Call("ParseReturnStmnt", p, <<>>)
               [] Type(p) = "For"          -> Call("ParseForLoopStmnt", p, <<attribs>>)
               [] Type(p) = "While"        -> Call("ParseWhileLoopStmnt", p, <<attribs>>)
               [] Type(p) = "Do"           -> Call("ParseDoWhileLoopStmnt", p, <<attribs>>)
               [] Type(p) = "If"           -> Call("ParseIfStmnt", p, <<attribs>>)
               [] Type(p) = "Switch"       -> Call("ParseSwitchStmnt", p, <<attribs>>)
               [] Type(p) = "CtrlTransfer" -> Call("ParseCtrlTransferStmnt", p, <<>>)
               [] Type(p) = "Struct"       -> Call("ParseStructDeclOrVarDeclStmnt", p, <<>>)
               [] Type(p) \in {"TypeModifier", "StorageModifier"}
                                           -> Call("ParseVarDeclStmnt", p, <<>>)
               [] OTHER -> IF IsDataType(p) THEN Call("ParseVarDeclStmnt", p, <<>>)
                           ELSE Call("ParseExprStmnt", p, <<Null>>)

\* ParseStmnt
ParseStmnt(p0) ==
    IF p0.err THEN Ret(p0, Null) ELSE
    LET ra == IF Is(p0, "LParen") THEN Call("ParseAttributeList", p0, << <<>> >>) ELSE Ret(p0, <<>>)
        p  == ra.p
        attribs == ra.v
    IN  IF p.err THEN Ret(p, Null)
        ELSE CASE Type(p) = "Semicolon"    -> Call("ParseNullStmnt", p, <<>>)
               [] Type(p) = "Directive"    -> Call("ParseDirectiveStmnt", p, <<>>)
               [] Type(p) = "LCurly"       -> Call("ParseCodeBlockStmnt", p, <<>>)
               [] Type(p) = "Return"       -> Call("ParseReturnStmnt", p, <<>>)
               [] Type(p) = "Ident"        -> Call("ParseVarDeclOrAssignOrFunctionCallStmnt", p, <<>>)
               [] Type(p) = "For"          -> Call("ParseForLoopStmnt", p, <<attribs>>)
               [] Type(p) = "While"        -> Call("ParseWhileLoopStmnt", p, <<attribs>>)
               [] Type(p) = "Do"           -> Call("ParseDoWhileLoopStmnt", p, <<attribs>>)
               [] Type(p) = "If"           -> Call("ParseIfStmnt", p, <<attribs>>)
               [] Type(p) = "Switch"       -> Call("ParseSwitchStmnt", p, <<attribs>>)
               [] Type(p) = "CtrlTransfer" -> Call("ParseCtrlTransferStmnt", p, <<>>)
               [] Type(p) = "Struct"       -> Call("ParseStructDeclOrVarDeclStmnt", p, <<>>)
               [] Type(p) \in {"TypeModifier", "StorageModifier"}
                                           -> Call("ParseVarDeclStmnt", p, <<>>)
               [] OTHER -> IF IsDataType(p) THEN Call("ParseVarDeclStmnt", p, <<>>)
                           ELSE Call("ParseExprStmnt", p, <<Null>>)

\* ParseCodeBlockStmnt
ParseCodeBlockStmnt(p0) ==
    IF p0.err THEN Ret(p0, Null) ELSE
    LET m  == Make(p0)
        r1 == Call("ParseCodeBlock", m.p, <<>>)
    IN  IF r1.p.err THEN Ret(r1.p, Null)
        ELSE Ret(r1.p, [type |-> "CodeBlockStmnt", id |-> m.id, pos |-> m.pos,
                   codeBlock |-> r1.v])

\* ParseForLoopStmnt(attribs)
ParseForLoopStmnt(p0, attribs) ==
    IF p0.err THEN Ret(p0, Null) ELSE
    LET m  == Make(p0)
        p1 == Accept(m.p, "For").p
        p2 == Accept(p1, "LBracket").p
        r3 == Call("ParseStmnt", p2, <<>>)
        r4 == IF ~Is(r3.p, "Semicolon") THEN Call("ParseExpr", r3.p, <<TRUE, Null>>)
              ELSE Ret(r3.p, Null)
        p5 == Semi(r4.p)
        r6 == IF ~Is(p5, "RBracket") THEN Call("ParseExpr", p5, <<TRUE, Null>>)
              ELSE Ret(p5, Null)
        p7 == Accept(r6.p, "RBracket").p
        r8 == Call("ParseStmnt", p7, <<>>)
    IN  IF r3.p.err THEN Ret(r3.p, Null)
        ELSE IF r4.p.err THEN Ret(r4.p, Null)
        ELSE IF r6.p.err THEN Ret(r6.p, Null)
        ELSE IF r8.p.err THEN Ret(r8.p, Null)
        ELSE Ret(r8.p, [type |-> "ForLoopStmnt", id |-> m.id, pos |-> m.pos,
                   attribs |-> attribs, initSmnt |-> r3.v, condition |-> r4.v,
                   iteration |-> r6.v, bodyStmnt |-> r8.v])

\* ParseWhileLoopStmnt(attribs)
ParseWhileLoopStmnt(p0, attribs) ==
    IF p0.err THEN Ret(p0, Null) ELSE
    LET m  == Make(p0)
        p1 == Accept(m.p, "While").p
        p2 == Accept(p1, "LBracket").p
        r3 == Call("ParseExpr", p2, <<TRUE, Null>>)
        p4 == Accept(r3.p, "RBracket").p
        r5 == Call("ParseStmnt", p4, <<>>)
    IN  IF r3.p.err THEN Ret(r3.p, Null)
        ELSE IF r5.p.err THEN Ret(r5.p, Null)
        ELSE Ret(r5.p, [type |-> "WhileLoopStmnt", id |-> m.id, pos |-> m.pos,
                   attribs |-> attribs, condition |-> r3.v, bodyStmnt |-> r5.v])

\* ParseDoWhileLoopStmnt(attribs)
ParseDoWhileLoopStmnt(p0, attribs) ==
    IF p0.err THEN Ret(p0, Null) ELSE
    LET m  == Make(p0)
        p1 == Accept(m.p, "Do").p
        r2 == Call("ParseStmnt", p1, <<>>)
        p3 == Accept(r2.p, "While").p
        p4 == Accept(p3, "LBracket").p
        r5 == Call("ParseExpr", p4, <<TRUE, Null>>)
        p6 == Accept(r5.p, "RBracket").p
        p7 == Semi(p6)
    IN  IF r2.p.err THEN Ret(r2.p, Null)
        ELSE IF r5.p.err THEN Ret(r5.p, Null)
        ELSE Ret(p7, [type |-> "DoWhileLoopStmnt", id |-> m.id, pos |-> m.pos,
                 attribs |-> attribs, bodyStmnt |-> r2.v, condition |-> r5.v])

\* ParseIfStmnt(attribs)
ParseIfStmnt(p0, attribs) ==
    IF p0.err THEN Ret(p0, Null) ELSE
    LET m  == Make(p0)
        p1 == Accept(m.p, "If").p
        p2 == Accept(p1, "LBracket").p
        r3 == Call("ParseExpr", p2, <<TRUE, Null>>)
        p4 == Accept(r3.p, "RBracket").p
        r5 == Call("ParseStmnt", p4, <<>>)
        r6 == IF Is(r5.p, "Else") THEN Call("ParseElseStmnt", r5.p, <<>>) ELSE Ret(r5.p, Null)
    IN  IF r3.p.err THEN Ret(r3.p, Null)
        ELSE IF r5.p.err THEN Ret(r5.p, Null)
        ELSE IF r6.p.err THEN Ret(r6.p, Null)
        ELSE Ret(r6.p, [type |-> "IfStmnt", id |-> m.id, pos |-> m.pos,
                   attribs |-> attribs, condition |-> r3.v, bodyStmnt |-> r5.v,
                   elseStmnt |-> r6.v])

\* ParseElseStmnt
ParseElseStmnt(p0) ==
    IF p0.err THEN Ret(p0, Null) ELSE
    LET m  == Make(p0)
        p1 == Accept(m.p, "Else").p
        r2 == Call("ParseStmnt", p1, <<>>)
    IN  IF r2.p.err THEN Ret(r2.p, Null)
        ELSE Ret(r2.p, [type |-> "ElseStmnt", id |-> m.id, pos |-> m.pos,
                   bodyStmnt |-> r2.v])

\* ParseSwitchStmnt(attribs)
ParseSwitchStmnt(p0, attribs) ==
    IF p0.err THEN Ret(p0, Null) ELSE
    LET m  == Make(p0)
        p1 == Accept(m.p, "Switch").p
        p2 == Accept(p1, "LBracket").p
        r3 == Call("ParseExpr", p2, <<TRUE, Null>>)
        p4 == Accept(r3.p, "RBracket").p
        p5 == Accept(p4, "LCurly").p
        r6 == Call("ParseSwitchCaseList", p5, << <<>> >>)
        p7 == Accept(r6.p, "RCurly").p
    IN  IF r3.p.err THEN Ret(r3.p, Null)
        ELSE IF r6.p.err THEN Ret(r6.p, Null)
        ELSE Ret(p7, [type |-> "SwitchStmnt", id |-> m.id, pos |-> m.pos,
                 attribs |-> attribs, selector |-> r3.v, cases |-> r6.v])

\* the decoration loop: for (auto& varDecl : varDecls) varDecl->declStmntRef = ast.get()
Decorate(varDecls, stmntId) ==
    [i \in 1..Len(varDecls) |-> [varDecls[i] EXCEPT !.declStmntRef = stmntId]]

\* ParseVarDeclStmnt: the while (true) loop over modifiers up to the type
ParseVarDeclStmntModifiers(p, ast) ==
    IF p.err THEN Ret(p, ast)
    ELSE IF Is(p, "StorageModifier")
    THEN LET r == AcceptIt(p)
         IN  Call("ParseVarDeclStmntModifiers", r.p, <<[ast EXCEPT !.storageModifiers = Append(@, r.v.spell)]>>)
    ELSE IF Is(p, "TypeModifier")
    THEN LET r == AcceptIt(p)
         IN  Call("ParseVarDeclStmntModifiers", r.p, <<[ast EXCEPT !.typeModifiers = Append(@, r.v.spell)]>>)
    ELSE IF Is(p, "Ident")
    THEN LET r == AcceptIt(p)
             m == Make(r.p)
         IN  Ret(m.p, [ast EXCEPT !.varType =
                 [type |-> "VarType", id |-> m.id, pos |-> m.pos,
                  baseType |-> r.v.spell, structType |-> Null, symbolRef |-> 0]])
    ELSE IF Is(p, "Struct")
    THEN LET m == Make(p)
             r == Call("ParseStructure", m.p, <<>>)
         IN  Ret(r.p, [ast EXCEPT !.varType =
                 [type |-> "VarType", id |-> m.id, pos |-> m.pos,
                  baseType |-> "", structType |-> r.v, symbolRef |-> 0]])
    ELSE IF IsDataType(p)
    THEN LET m == Make(p)
             r == AcceptIt(m.p)
         IN  Ret(r.p, [ast EXCEPT !.varType =
                 [type |-> "VarType", id |-> m.id, pos |-> m.pos,
                  baseType |-> r.v.spell, structType |-> Null, symbolRef |-> 0]])
    ELSE Ret(ErrorUnexpected(p), ast)

ParseVarDeclStmnt(p0) ==
    IF p0.err THEN Ret(p0, Null) ELSE
    LET m  == Make(p0)
        r1 == Call("ParseVarDeclStmntModifiers", m.p, <<[type |-> "VarDeclStmnt", id |-> m.id, pos |-> m.pos,
                   inputModifier |-> "", typeModifiers |-> <<>>,
                   storageModifiers |-> <<>>, varType |-> Null, varDecls |-> <<>>]>>)
        r2 == Call("ParseVarDeclList", r1.p, << <<>> >>)
        p3 == Semi(r2.p)
    IN  IF r1.p.err THEN Ret(r1.p, Null)
        ELSE IF r2.p.err THEN Ret(r2.p, Null)
        ELSE IF p3.err THEN Ret(p3, Null)
        ELSE Ret(p3, [r1.v EXCEPT !.varDecls = Decorate(r2.v, m.id)])

\* ParseReturnStmnt
ParseReturnStmnt(p0) ==
    IF p0.err THEN Ret(p0, Null) ELSE
    LET m  == Make(p0)
        p1 == Accept(m.p, "Return").p
        r2 == IF ~Is(p1, "Semicolon") THEN Call("ParseExpr", p1, <<TRUE, Null>>) ELSE Ret(p1, Null)
        p3 == Semi(r2.p)
    IN  IF r2.p.err THEN Ret(r2.p, Null)
        ELSE Ret(p3, [type |-> "ReturnStmnt", id |-> m.id, pos |-> m.pos, expr |-> r2.v])

\* ParseExprStmnt(varIdent)
ParseExprStmnt(p0, varIdent) ==
    IF p0.err THEN Ret(p0, Null) ELSE
    LET m  == Make(p0)
        r1 == IF ~IsNull(varIdent)
              THEN LET me == Make(m.p)
                   IN  Call("ParseExpr", me.p, <<TRUE, [type |-> "VarAccessExpr", id |-> me.id, pos |-> me.pos,
                            varIdent |-> varIdent, assignOp |-> "",
                            assignExpr |-> Null]>>)
              ELSE Call("ParseExpr", m.p, <<TRUE, Null>>)
        p2 == Semi(r1.p)
    IN  IF r1.p.err THEN Ret(r1.p, Null)
        ELSE Ret(p2, [type |-> "ExprStmnt", id |-> m.id, pos |-> m.pos, expr |-> r1.v])

\* Variant of ParseStructDeclOrVarDeclStmnt that always ends the structure
\* with a semicolon, as ParseStructDecl does.
ParseStructDeclStmntOnly(p0) ==
    IF p0.err THEN Ret(p0, Null) ELSE
    LET m  == Make(p0)
        r1 == Call("ParseStructure", m.p, <<>>)
    IN  IF r1.p.err THEN Ret(r1.p, Null)
        ELSE Ret(Semi(r1.p), [type |-> "StructDeclStmnt", id |-> m.id,
                         pos |-> m.pos, structure |-> r1.v])

\* ParseStructDeclOrVarDeclStmnt
ParseStructDeclOrVarDeclStmnt(p0) ==
    IF p0.err THEN Ret(p0, Null) ELSE
    LET m  == Make(p0)
        r1 == Call("ParseStructure", m.p, <<>>)
    IN  IF r1.p.err THEN Ret(r1.p, Null)
        ELSE IF ~Is(r1.p, "Semicolon")
        THEN LET ms == Make(r1.p)
                 mt == Make(ms.p)
                 r2 == Call("ParseVarDeclList", mt.p, << <<>> >>)
                 p3 == Semi(r2.p)
             IN  IF r2.p.err THEN Ret(r2.p, Null) ELSE
                 Ret(p3, [type |-> "VarDeclStmnt", id |-> ms.id, pos |-> ms.pos,
                          inputModifier |-> "", typeModifiers |-> <<>>,
                          storageModifiers |-> <<>>,
                          varType |-> [type |-> "VarType", id |-> mt.id,
                                       pos |-> mt.pos, baseType |-> "",
                                       structType |-> r1.v, symbolRef |-> 0],
                          varDecls |-> r2.v])
        ELSE Ret(Semi(r1.p), [type |-> "StructDeclStmnt", id |-> m.id,
                              pos |-> m.pos, structure |-> r1.v])

\* Variant of ParseVarDeclOrAssignOrFunctionCallStmnt without the test of
\* varIdent->next: a dotted path is taken as a type name as well.
ParseVarDeclOrAssignOrFunctionCallStmntAnyPath(p0) ==
    IF p0.err THEN Ret(p0, Null) ELSE
    LET rv == Call("ParseVarIdent", p0, <<>>)
        p  == rv.p
        varIdent == rv.v
    IN  IF p.err THEN Ret(p, Null)
        ELSE IF Is(p, "LBracket")
        THEN LET m  == Make(p)
                 r1 == Call("ParseFunctionCall", m.p, <<varIdent>>)
             IN  IF r1.p.err THEN Ret(r1.p, Null) ELSE
                 Ret(Semi(r1.p), [type |-> "FunctionCallStmnt", id |-> m.id,
                                  pos |-> m.pos, call |-> r1.v])
        ELSE IF Is(p, "AssignOp")
        THEN LET m  == Make(p)
                 r1 == AcceptIt(m.p)
                 r2 == Call("ParseExpr", r1.p, <<TRUE, Null>>)
             IN  IF r2.p.err THEN Ret(r2.p, Null) ELSE
                 Ret(Semi(r2.p), [type |-> "AssignStmnt", id |-> m.id, pos |-> m.pos,
                                  varIdent |-> varIdent, op |-> r1.v.spell,
                                  expr |-> r2.v])
        ELSE IF IsSpell(p, "UnaryOp", "++") \/ IsSpell(p, "UnaryOp", "--")
        THEN Call("ParseExprStmnt", p, <<varIdent>>)
        ELSE LET m  == Make(p)
                 mt == Make(m.p)
                 r1 == Call("ParseVarDeclList", mt.p, << <<>> >>)
                 p2 == Semi(r1.p)
             IN  IF r1.p.err THEN Ret(r1.p, Null)
                 ELSE IF p2.err THEN Ret(p2, Null) ELSE
                 Ret(p2, [type |-> "VarDeclStmnt", id |-> m.id, pos |-> m.pos,
                          inputModifier |-> "", typeModifiers |-> <<>>,
                          storageModifiers |-> <<>>,
                          varType |-> [type |-> "VarType", id |-> mt.id,
                                       pos |-> mt.pos, baseType |-> varIdent.ident,
                                       structType |-> Null, symbolRef |-> 0],
                          varDecls |-> Decorate(r1.v, m.id)])

\* ParseVarDeclOrAssignOrFunctionCallStmnt
ParseVarDeclOrAssignOrFunctionCallStmnt(p0) ==
    IF p0.err THEN Ret(p0, Null) ELSE
    LET rv == Call("ParseVarIdent", p0, <<>>)
        p  == rv.p
        varIdent == rv.v
    IN  IF p.err THEN Ret(p, Null)
        ELSE IF Is(p, "LBracket")
        THEN LET m  == Make(p)
                 r1 == Call("ParseFunctionCall", m.p, <<varIdent>>)
             IN  IF r1.p.err THEN Ret(r1.p, Null) ELSE
                 Ret(Semi(r1.p), [type |-> "FunctionCallStmnt", id |-> m.id,
                                  pos |-> m.pos, call |-> r1.v])
        ELSE IF Is(p, "AssignOp")
        THEN LET m  == Make(p)
                 r1 == AcceptIt(m.p)
                 r2 == Call("ParseExpr", r1.p, <<TRUE, Null>>)
             IN  IF r2.p.err THEN Ret(r2.p, Null) ELSE
                 Ret(Semi(r2.p), [type |-> "AssignStmnt", id |-> m.id, pos |-> m.pos,
                                  varIdent |-> varIdent, op |-> r1.v.spell,
                                  expr |-> r2.v])
        ELSE IF IsSpell(p, "UnaryOp", "++") \/ IsSpell(p, "UnaryOp", "--")
        THEN Call("ParseExprStmnt", p, <<varIdent>>)
        ELSE IF IsNull(varIdent.next)
        THEN LET m  == Make(p)
                 mt == Make(m.p)
                 r1 == Call("ParseVarDeclList", mt.p, << <<>> >>)
                 p2 == Semi(r1.p)
             IN  IF r1.p.err THEN Ret(r1.p, Null)
                 ELSE IF p2.err THEN Ret(p2, Null) ELSE
                 Ret(p2, [type |-> "VarDeclStmnt", id |-> m.id, pos |-> m.pos,
                          inputModifier |-> "", typeModifiers |-> <<>>,
                          storageModifiers |-> <<>>,
                          varType |-> [type |-> "VarType", id |-> mt.id,
                                       pos |-> mt.pos, baseType |-> varIdent.ident,
                                       structType |-> Null, symbolRef |-> 0],
                          varDecls |-> Decorate(r1.v, m.id)])
        ELSE Ret(ErrorUnexpectedHint(p,
                 "expected variable declaration, assignment or function call statement"),
                 Null)

----------------------------------------------------------------------------
(* Expressions *)

\* Variant of ParseExpr that takes one primary expression as the right
\* operand of a binary operator and goes on with the BinaryExpr as the left
\* operand of what follows: binary operators associate to the left.
ParseExprLeftAssociative(p0, allowComma, initExpr) ==
    IF p0.err THEN Ret(p0, Null) ELSE
    LET r1 == IF IsNull(initExpr) THEN Call("ParsePrimaryExpr", p0, <<>>) ELSE Ret(p0, initExpr)
        \* optional post-unary expression
        r2 == IF Is(r1.p, "UnaryOp")
              THEN LET m == Make(r1.p)
                       r == AcceptIt(m.p)
                   IN  Ret(r.p, [type |-> "PostUnaryExpr", id |-> m.id, pos |-> m.pos,
                                 expr |-> r1.v, op |-> r.v.spell])
              ELSE r1
        p   == r2.p
        ast == r2.v
    IN  IF r1.p.err THEN Ret(r1.p, Null)
        ELSE IF Is(p, "BinaryOp")
        THEN LET m  == Make(p)
                 ro == AcceptIt(m.p)
                 rr == Call("ParsePrimaryExpr", ro.p, <<>>)
             IN  IF rr.p.err THEN Ret(rr.p, Null) ELSE
                 Call("ParseExpr", rr.p, <<allowComma,
                      [type |-> "BinaryExpr", id |-> m.id, pos |-> m.pos,
                       lhsExpr |-> ast, op |-> ro.v.spell, rhsExpr |-> rr.v]>>)
        ELSE IF Is(p, "TernaryOp")
        THEN LET m  == Make(p)
                 p1 == AcceptIt(m.p).p
                 ri == Call("ParseExpr", p1, <<DefaultAllowComma, Null>>)
                 p2 == Accept(ri.p, "Colon").p
                 re == Call("ParseExpr", p2, <<DefaultAllowComma, Null>>)
             IN  IF ri.p.err THEN Ret(ri.p, Null)
                 ELSE IF re.p.err THEN Ret(re.p, Null) ELSE
                 Ret(re.p, [type |-> "TernaryExpr", id |-> m.id, pos |-> m.pos,
                            condition |-> ast, ifExpr |-> ri.v, elseExpr |-> re.v])
        ELSE IF allowComma /\ Is(p, "Comma")
        THEN LET p1 == AcceptIt(p).p
                 m  == Make(p1)
                 rn == Call("ParseExpr", m.p, <<TRUE, Null>>)
             IN  IF rn.p.err THEN Ret(rn.p, Null) ELSE
                 Ret(rn.p, [type |-> "ListExpr", id |-> m.id, pos |-> m.pos,
                            firstExpr |-> ast, nextExpr |-> rn.v])
        ELSE Ret(p, ast)

\* ParseExpr(allowComma, initExpr)
ParseExpr(p0, allowComma, initExpr) ==
    IF p0.err THEN Ret(p0, Null) ELSE
    LET r1 == IF IsNull(initExpr) THEN Call("ParsePrimaryExpr", p0, <<>>) ELSE Ret(p0, initExpr)
        \* optional post-unary expression
        r2 == IF Is(r1.p, "UnaryOp")
              THEN LET m == Make(r1.p)
                       r == AcceptIt(m.p)
                   IN  Ret(r.p, [type |-> "PostUnaryExpr", id |-> m.id, pos |-> m.pos,
                                 expr |-> r1.v, op |-> r.v.spell])
              ELSE r1
        p   == r2.p
        ast == r2.v
    IN  IF r1.p.err THEN Ret(r1.p, Null)
        ELSE IF Is(p, "BinaryOp")
        THEN LET m  == Make(p)
                 ro == AcceptIt(m.p)
                 rr == Call("ParseExpr", ro.p, <<allowComma, Null>>)
             IN  IF rr.p.err THEN Ret(rr.p, Null) ELSE
                 Ret(rr.p, [type |-> "BinaryExpr", id |-> m.id, pos |-> m.pos,
                            lhsExpr |-> ast, op |-> ro.v.spell, rhsExpr |-> rr.v])
        ELSE IF Is(p, "TernaryOp")
        THEN LET m  == Make(p)
                 p1 == AcceptIt(m.p).p
                 ri == Call("ParseExpr", p1, <<DefaultAllowComma, Null>>)
                 p2 == Accept(ri.p, "Colon").p
                 re == Call("ParseExpr", p2, <<DefaultAllowComma, Null>>)
             IN  IF ri.p.err THEN Ret(ri.p, Null)
                 ELSE IF re.p.err THEN Ret(re.p, Null) ELSE
                 Ret(re.p, [type |-> "TernaryExpr", id |-> m.id, pos |-> m.pos,
                            condition |-> ast, ifExpr |-> ri.v, elseExpr |-> re.v])
        ELSE IF allowComma /\ Is(p, "Comma")
        THEN LET p1 == AcceptIt(p).p
                 m  == Make(p1)
                 rn == Call("ParseExpr", m.p, <<TRUE, Null>>)
             IN  IF rn.p.err THEN Ret(rn.p, Null) ELSE
                 Ret(rn.p, [type |-> "ListExpr", id |-> m.id, pos |-> m.pos,
                            firstExpr |-> ast, nextExpr |-> rn.v])
        ELSE Ret(p, ast)

\* ParsePrimaryExpr
ParsePrimaryExpr(p) ==
    CASE p.err           -> Ret(p, Null)
      [] IsLiteral(p)    -> Call("ParseLiteralExpr", p, <<>>)
      [] IsDataType(p)   -> Call("ParseTypeNameOrFunctionCallExpr", p, <<>>)
      [] Is(p, "UnaryOp") \/ IsSpell(p, "BinaryOp", "-")
                         -> Call("ParseUnaryExpr", p, <<>>)
      [] Is(p, "LBracket") -> Call("ParseBracketOrCastExpr", p, <<>>)
      [] Is(p, "LCurly")   -> Call("ParseInitializerExpr", p, <<>>)
      [] Is(p, "Ident")    -> Call("ParseVarAccessOrFunctionCallExpr", p, <<>>)
      [] OTHER -> Ret(ErrorUnexpectedHint(p, "expected primary expression"), Null)

\* ParseTypeNameOrFunctionCallExpr
ParseTypeNameOrFunctionCallExpr(p0) ==
    IF p0.err THEN Ret(p0, Null) ELSE
    LET p1 == IF ~IsDataType(p0)
              THEN ErrorUnexpectedHint(p0,
                       "expected type name or function call expression")
              ELSE p0
        r2 == AcceptIt(p1)
    IN  IF r2.p.err THEN Ret(r2.p, Null)
        ELSE IF Is(r2.p, "LBracket")
        THEN LET m == Make(r2.p)
             IN  Call("ParseFunctionCallExpr", m.p, <<[type |-> "VarIdent", id |-> m.id, pos |-> m.pos,
                      ident |-> r2.v.spell, arrayIndices |-> <<>>, next |-> Null]>>)
        ELSE LET m == Make(r2.p)
             IN  Ret(m.p, [type |-> "TypeNameExpr", id |-> m.id, pos |-> m.pos,
                           typeName |-> r2.v.spell])

\* ParseUnaryExpr
ParseUnaryExpr(p0) ==
    IF p0.err THEN Ret(p0, Null) ELSE
    LET p1 == IF ~Is(p0, "UnaryOp") /\ ~IsSpell(p0, "BinaryOp", "-")
              THEN ErrorUnexpectedHint(p0, "expected unary expression operator")
              ELSE p0
        m  == Make(p1)
        r2 == AcceptIt(m.p)
        r3 == Call("ParsePrimaryExpr", r2.p, <<>>)
    IN  IF r3.p.err THEN Ret(r3.p, Null)
        ELSE Ret(r3.p, [type |-> "UnaryExpr", id |-> m.id, pos |-> m.pos,
                   op |-> r2.v.spell, expr |-> r3.v])

\* the test of ParseBracketOrCastExpr on the expression inside the bracket
IsTypeForm(expr) ==
    \/ expr.type = "TypeNameExpr"
    \/ (expr.type = "VarAccessExpr" /\ IsNull(expr.assignExpr))

\* ParseBracketOrCastExpr
ParseBracketOrCastExpr(p0) ==
    IF p0.err THEN Ret(p0, Null) ELSE
    LET p1 == Accept(p0, "LBracket").p
        r2 == Call("ParseExpr", p1, <<TRUE, Null>>)
        p3 == Accept(r2.p, "RBracket").p
    IN  IF r2.p.err THEN Ret(r2.p, Null)
        ELSE IF p3.err THEN Ret(p3, Null)
        ELSE IF IsPrimaryExpr(p3) /\ IsTypeForm(r2.v)
        THEN LET m  == Make(p3)
                 r4 == Call("ParsePrimaryExpr", m.p, <<>>)
             IN  IF r4.p.err THEN Ret(r4.p, Null) ELSE
                 Ret(r4.p, [type |-> "CastExpr", id |-> m.id, pos |-> m.pos,
                            typeExpr |-> r2.v, expr |-> r4.v])
        ELSE LET m == Make(p3)
             IN  Ret(m.p, [type |-> "BracketExpr", id |-> m.id, pos |-> m.pos,
                           expr |-> r2.v])

\* ParseVarAccessOrFunctionCallExpr
ParseVarAccessOrFunctionCallExpr(p0) ==
    IF p0.err THEN Ret(p0, Null) ELSE
    LET r1 == Call("ParseVarIdent", p0, <<>>)
    IN  IF r1.p.err THEN Ret(r1.p, Null)
        ELSE IF Is(r1.p, "LBracket") THEN Call("ParseFunctionCallExpr", r1.p, <<r1.v>>)
        ELSE Call("ParseVarAccessExpr", r1.p, <<r1.v>>)

\* ParseVarAccessExpr(varIdent)
ParseVarAccessExpr(p0, varIdent) ==
    IF p0.err THEN Ret(p0, Null) ELSE
    LET m  == Make(p0)
        r1 == IF ~IsNull(varIdent) THEN Ret(m.p, varIdent) ELSE Call("ParseVarIdent", m.p, <<>>)
        ro == IF Is(r1.p, "AssignOp") THEN AcceptIt(r1.p) ELSE Ret(r1.p, Tok("", ""))
        re == IF Is(r1.p, "AssignOp") THEN Call("ParseExpr", ro.p, <<DefaultAllowComma, Null>>)
              ELSE Ret(r1.p, Null)
    IN  IF r1.p.err THEN Ret(r1.p, Null)
        ELSE IF re.p.err THEN Ret(re.p, Null)
        ELSE Ret(re.p, [type |-> "VarAccessExpr", id |-> m.id, pos |-> m.pos,
                   varIdent |-> r1.v, assignOp |-> ro.v.spell,
                   assignExpr |-> re.v])

\* ParseFunctionCallExpr(varIdent)
ParseFunctionCallExpr(p0, varIdent) ==
    IF p0.err THEN Ret(p0, Null) ELSE
    LET m  == Make(p0)
        r1 == Call("ParseFunctionCall", m.p, <<varIdent>>)
    IN  IF r1.p.err THEN Ret(r1.p, Null)
        ELSE Ret(r1.p, [type |-> "FunctionCallExpr", id |-> m.id, pos |-> m.pos,
                   call |-> r1.v])

\* ParseInitializerExpr
ParseInitializerExpr(p0) ==
    IF p0.err THEN Ret(p0, Null) ELSE
    LET m  == Make(p0)
        r1 == Call("ParseInitializerList", m.p, <<>>)
    IN  IF r1.p.err THEN Ret(r1.p, Null)
        ELSE Ret(r1.p, [type |-> "InitializerExpr", id |-> m.id, pos |-> m.pos,
                   exprs |-> r1.v])

----------------------------------------------------------------------------
(* Lists *)

\* Variant of ParseVarDeclList that stores each declaration twice in the
\* list: the same node is held by two slots.
ParseVarDeclListPushingTwice(p, varDecls) ==
    IF p.err THEN Ret(p, varDecls)
    ELSE LET r == Call("ParseVarDecl", p, <<>>)
         IN  IF r.p.err THEN Ret(r.p, varDecls)
             ELSE IF Is(r.p, "Comma")
             THEN Call("ParseVarDeclList", AcceptIt(r.p).p,
                       <<Append(Append(varDecls, r.v), r.v)>>)
             ELSE Ret(r.p, Append(Append(varDecls, r.v), r.v))

\* ParseVarDeclList
ParseVarDeclList(p, varDecls) ==
    IF p.err THEN Ret(p, varDecls)
    ELSE LET r == Call("ParseVarDecl", p, <<>>)
         IN  IF r.p.err THEN Ret(r.p, varDecls)
             ELSE IF Is(r.p, "Comma")
             THEN Call("ParseVarDeclList", AcceptIt(r.p).p, <<Append(varDecls, r.v)>>)
             ELSE Ret(r.p, Append(varDecls, r.v))

\* ParseVarDeclStmntList
ParseVarDeclStmntListLoop(p, members) ==
    IF p.err \/ Is(p, "RCurly") THEN Ret(p, members)
    ELSE LET r == Call("ParseVarDeclStmnt", p, <<>>)
         IN  IF r.p.err THEN Ret(r.p, members)
             ELSE Call("ParseVarDeclStmntListLoop", r.p, <<Append(members, r.v)>>)

ParseVarDeclStmntList(p0) ==
    IF p0.err THEN Ret(p0, <<>>) ELSE
    LET p1 == Accept(p0, "LCurly").p
        r2 == Call("ParseVarDeclStmntListLoop", p1, << <<>> >>)
    IN  IF r2.p.err THEN Ret(r2.p, <<>>)
        ELSE Ret(AcceptIt(r2.p).p, r2.v)

\* ParseParameterList
ParseParameterListLoop(p, parameters) ==
    IF p.err THEN Ret(p, parameters)
    ELSE LET r == Call("ParseParameter", p, <<>>)
         IN  IF r.p.err THEN Ret(r.p, parameters)
             ELSE IF Is(r.p, "Comma")
             THEN Call("ParseParameterListLoop", AcceptIt(r.p).p, <<Append(parameters, r.v)>>)
             ELSE Ret(r.p, Append(parameters, r.v))

ParseParameterList(p0) ==
    IF p0.err THEN Ret(p0, <<>>) ELSE
    LET p1 == Accept(p0, "LBracket").p
        r2 == IF ~Is(p1, "RBracket") THEN Call("ParseParameterListLoop", p1, << <<>> >>)
              ELSE Ret(p1, <<>>)
    IN  IF r2.p.err THEN Ret(r2.p, <<>>)
        ELSE Ret(Accept(r2.p, "RBracket").p, r2.v)

\* ParseStmntList
ParseStmntList(p, stmnts) ==
    IF p.err \/ Is(p, "RCurly") THEN Ret(p, stmnts)
    ELSE LET r == Call("ParseStmnt", p, <<>>)
         IN  IF r.p.err THEN Ret(r.p, stmnts)
             ELSE Call("ParseStmntList", r.p, <<Append(stmnts, r.v)>>)

\* ParseExprList(listTerminatorToken, allowLastComma)
ParseExprListLoop(p, listTerminatorToken, allowLastComma, exprs) ==
    IF p.err THEN Ret(p, exprs)
    ELSE LET r == Call("ParseExpr", p, <<DefaultAllowComma, Null>>)
         IN  IF r.p.err THEN Ret(r.p, exprs)
             ELSE IF Is(r.p, "Comma")
             THEN LET p1 == AcceptIt(r.p).p
                  IN  IF allowLastComma /\ Is(p1, listTerminatorToken)
                      THEN Ret(p1, Append(exprs, r.v))
                      ELSE Call("ParseExprListLoop", p1, <<listTerminatorToken, allowLastComma, Append(exprs, r.v)>>)
             ELSE Ret(r.p, Append(exprs, r.v))

ParseExprList(p, listTerminatorToken, allowLastComma) ==
    IF p.err THEN Ret(p, <<>>)
    ELSE IF ~Is(p, listTerminatorToken)
    THEN Call("ParseExprListLoop", p, <<listTerminatorToken, allowLastComma, <<>> >>)
    ELSE Ret(p, <<>>)

\* ParseArrayDimensionList
ParseArrayDimensionList(p, arrayDims) ==
    IF p.err \/ ~Is(p, "LParen") THEN Ret(p, arrayDims)
    ELSE LET r == Call("ParseArrayDimension", p, <<>>)
         IN  IF r.p.err THEN Ret(r.p, arrayDims)
             ELSE Call("ParseArrayDimensionList", r.p, <<Append(arrayDims, r.v)>>)

\* Variant of ParseArgumentList that takes whatever token follows the
\* arguments as the closing bracket.
ParseArgumentListAnyCloser(p0) ==
    IF p0.err THEN Ret(p0, <<>>) ELSE
    LET p1 == Accept(p0, "LBracket").p
        r2 == Call("ParseExprList", p1, <<"RBracket", FALSE>>)
    IN  IF r2.p.err THEN Ret(r2.p, <<>>)
        ELSE Ret(AcceptIt(r2.p).p, r2.v)

\* ParseArgumentList
ParseArgumentList(p0) ==
    IF p0.err THEN Ret(p0, <<>>) ELSE
    LET p1 == Accept(p0, "LBracket").p
        r2 == Call("ParseExprList", p1, <<"RBracket", FALSE>>)
    IN  IF r2.p.err THEN Ret(r2.p, <<>>)
        ELSE Ret(Accept(r2.p, "RBracket").p, r2.v)

\* ParseInitializerList
ParseInitializerList(p0) ==
    IF p0.err THEN Ret(p0, <<>>) ELSE
    LET p1 == Accept(p0, "LCurly").p
        r2 == Call("ParseExprList", p1, <<"RCurly", TRUE>>)
    IN  IF r2.p.err THEN Ret(r2.p, <<>>)
        ELSE Ret(Accept(r2.p, "RCurly").p, r2.v)

\* ParseAttributeList
ParseAttributeList(p, attribs) ==
    IF p.err \/ ~Is(p, "LParen") THEN Ret(p, attribs)
    ELSE LET r == Call("ParseAttribute", p, <<>>)
         IN  IF r.p.err THEN Ret(r.p, attribs)
             ELSE Call("ParseAttributeList", r.p, <<Append(attribs, r.v)>>)

\* Variant of ParseSwitchCaseList that puts each case at the front of the
\* list: the cases come out in reverse order.
ParseSwitchCaseListPrepending(p, cases) ==
    IF p.err \/ ~(Is(p, "Case") \/ Is(p, "Default")) THEN Ret(p, cases)
    ELSE LET r == Call("ParseSwitchCase", p, <<>>)
         IN  IF r.p.err THEN Ret(r.p, cases)
             ELSE Call("ParseSwitchCaseList", r.p, <<(<<r.v>> \o cases)>>)

\* ParseSwitchCaseList
ParseSwitchCaseList(p, cases) ==
    IF p.err \/ ~(Is(p, "Case") \/ Is(p, "Default")) THEN Ret(p, cases)
    ELSE LET r == Call("ParseSwitchCase", p, <<>>)
         IN  IF r.p.err THEN Ret(r.p, cases)
             ELSE Call("ParseSwitchCaseList", r.p, <<Append(cases, r.v)>>)

\* A call of one Parse function by another: the function of that name,
\* applied to the parser state p and the arguments a
Call(name, p, a) ==
    CASE name = "ParseRegister" -> ParseRegister(p, a[1])
      [] name = "ParseSemantic" -> ParseSemantic(p)
      [] name = "ParsePackOffset" -> ParsePackOffset(p, a[1])
      [] name = "ParseVarSemantic" -> ParseVarSemantic(p)
      [] name = "ParseVarSemanticList" -> ParseVarSemanticList(p, a[1])
      [] name = "ParseBufferDeclIdent" -> ParseBufferDeclIdent(p)
      [] name = "ParseBufferDeclIdentListLoop" -> ParseBufferDeclIdentListLoop(p, a[1])
      [] name = "ParseBufferDeclIdentList" -> ParseBufferDeclIdentList(p)
      [] name = "ParseTextureDecl" -> ParseTextureDecl(p)
      [] name = "ParseSamplerDecl" -> ParseSamplerDecl(p)
      [] name = "ParseDirectiveDecl" -> ParseDirectiveDecl(p)
      [] name = "ParseNullStmnt" -> ParseNullStmnt(p)
      [] name = "ParseDirectiveStmnt" -> ParseDirectiveStmnt(p)
      [] name = "ParseCtrlTransferStmnt" -> ParseCtrlTransferStmnt(p)
      [] name = "ParseLiteralExpr" -> ParseLiteralExpr(p)
      [] name = "ParseProgramLoop" -> ParseProgramLoop(p, a[1])
      [] name = "ParseProgram" -> ParseProgram(p)
      [] name = "ParseCodeBlock" -> ParseCodeBlock(p)
      [] name = "ParseFunctionCall" -> ParseFunctionCall(p, a[1])
      [] name = "ParseStructure" -> ParseStructure(p)
      [] name = "ParseParameterModifiers" -> ParseParameterModifiers(p, a[1])
      [] name = "ParseParameter" -> ParseParameter(p)
      [] name = "ParseSwitchCaseStmnts" -> ParseSwitchCaseStmnts(p, a[1])
      [] name = "ParseSwitchCase" -> ParseSwitchCase(p)
      [] name = "ParseGlobalDecl" -> ParseGlobalDecl(p)
      [] name = "ParseFunctionDecl" -> ParseFunctionDecl(p)
      [] name = "ParseUniformBufferDecl" -> ParseUniformBufferDecl(p)
      [] name = "ParseStructDecl" -> ParseStructDecl(p)
      [] name = "ParseAttributeArgs" -> ParseAttributeArgs(p, a[1])
      [] name = "ParseAttribute" -> ParseAttribute(p)
      [] name = "ParseArrayDimension" -> ParseArrayDimension(p)
      [] name = "ParseInitializer" -> ParseInitializer(p)
      [] name = "ParseVarIdent" -> ParseVarIdent(p)
      [] name = "ParseVarType" -> ParseVarType(p, a[1])
      [] name = "ParseVarDecl" -> ParseVarDecl(p)
      [] name = "ParseStmnt" -> ParseStmnt(p)
      [] name = "ParseCodeBlockStmnt" -> ParseCodeBlockStmnt(p)
      [] name = "ParseForLoopStmnt" -> ParseForLoopStmnt(p, a[1])
      [] name = "ParseWhileLoopStmnt" -> ParseWhileLoopStmnt(p, a[1])
      [] name = "ParseDoWhileLoopStmnt" -> ParseDoWhileLoopStmnt(p, a[1])
      [] name = "ParseIfStmnt" -> ParseIfStmnt(p, a[1])
      [] name = "ParseElseStmnt" -> ParseElseStmnt(p)
      [] name = "ParseSwitchStmnt" -> ParseSwitchStmnt(p, a[1])
      [] name = "ParseVarDeclStmntModifiers" -> ParseVarDeclStmntModifiers(p, a[1])
      [] name = "ParseVarDeclStmnt" -> ParseVarDeclStmnt(p)
      [] name = "ParseReturnStmnt" -> ParseReturnStmnt(p)
      [] name = "ParseExprStmnt" -> ParseExprStmnt(p, a[1])
      [] name = "ParseStructDeclOrVarDeclStmnt" -> ParseStructDeclOrVarDeclStmnt(p)
      [] name = "ParseVarDeclOrAssignOrFunctionCallStmnt" -> ParseVarDeclOrAssignOrFunctionCallStmnt(p)
      [] name = "ParseExpr" -> ParseExpr(p, a[1], a[2])
      [] name = "ParsePrimaryExpr" -> ParsePrimaryExpr(p)
      [] name = "ParseTypeNameOrFunctionCallExpr" -> ParseTypeNameOrFunctionCallExpr(p)
      [] name = "ParseUnaryExpr" -> ParseUnaryExpr(p)
      [] name = "ParseBracketOrCastExpr" -> ParseBracketOrCastExpr(p)
      [] name = "ParseVarAccessOrFunctionCallExpr" -> ParseVarAccessOrFunctionCallExpr(p)
      [] name = "ParseVarAccessExpr" -> ParseVarAccessExpr(p, a[1])
      [] name = "ParseFunctionCallExpr" -> ParseFunctionCallExpr(p, a[1])
      [] name = "ParseInitializerExpr" -> ParseInitializerExpr(p)
      [] name = "ParseVarDeclList" -> ParseVarDeclList(p, a[1])
      [] name = "ParseVarDeclStmntListLoop" -> ParseVarDeclStmntListLoop(p, a[1])
      [] name = "ParseVarDeclStmntList" -> ParseVarDeclStmntList(p)
      [] name = "ParseParameterListLoop" -> ParseParameterListLoop(p, a[1])
      [] name = "ParseParameterList" -> ParseParameterList(p)
      [] name = "ParseStmntList" -> ParseStmntList(p, a[1])
      [] name = "ParseExprListLoop" -> ParseExprListLoop(p, a[1], a[2], a[3])
      [] name = "ParseExprList" -> ParseExprList(p, a[1], a[2])
      [] name = "ParseArrayDimensionList" -> ParseArrayDimensionList(p, a[1])
      [] name = "ParseArgumentList" -> ParseArgumentList(p)
      [] name = "ParseInitializerList" -> ParseInitializerList(p)
      [] name = "ParseAttributeList" -> ParseAttributeList(p, a[1])
      [] name = "ParseSwitchCaseList" -> ParseSwitchCaseList(p, a[1])

----------------------------------------------------------------------------
(* ParseSource *)

\* the parser before the first token is fetched
NewParser(source) ==
    [src |-> source, cur |-> 0, nextId |-> 1, err |-> FALSE, msg |-> "",
     errCur |-> 0]

\* ParseSource up to the end of the try block: AcceptIt(); ParseProgram()
RunParser(source) == Call("ParseProgram", AcceptIt(NewParser(source)).p, <<>>)

\* ParseSource: the Program, or nullptr after catch (...) { log_->Error(err.what()) }
ParseSourceResult(r) == IF r.p.err THEN Null ELSE r.v

ParseSourceLog(r) ==
    IF r.p.err THEN <<[call |-> "Error", msg |-> r.p.msg]>> ELSE <<>>

----------------------------------------------------------------------------
(* The AST: owning child slots of each node type, in declaration order *)

NonNull(nodes) == SelectSeq(nodes, LAMBDA n : ~IsNull(n))

Children(n) ==
    NonNull(
    CASE n.type = "Program"           -> n.globalDecls
      [] n.type = "CodeBlock"         -> n.stmnts
      [] n.type = "FunctionCall"      -> <<n.name>> \o n.arguments
      [] n.type = "Structure"         -> n.members
      [] n.type = "SwitchCase"        -> <<n.expr>> \o n.stmnts
      [] n.type = "FunctionDecl"      ->
             n.attribs \o <<n.returnType>> \o n.parameters \o <<n.codeBlock>>
      [] n.type = "UniformBufferDecl" -> n.members
      [] n.type = "TextureDecl"       -> n.names
      [] n.type = "SamplerDecl"       -> n.names
      [] n.type = "StructDecl"        -> <<n.structure>>
      [] n.type = "CodeBlockStmnt"    -> <<n.codeBlock>>
      [] n.type = "ForLoopStmnt"      ->
             n.attribs \o <<n.initSmnt, n.condition, n.iteration, n.bodyStmnt>>
      [] n.type = "WhileLoopStmnt"    -> n.attribs \o <<n.condition, n.bodyStmnt>>
      [] n.type = "DoWhileLoopStmnt"  -> n.attribs \o <<n.bodyStmnt, n.condition>>
      [] n.type = "IfStmnt"           ->
             n.attribs \o <<n.condition, n.bodyStmnt, n.elseStmnt>>
      [] n.type = "ElseStmnt"         -> <<n.bodyStmnt>>
      [] n.type = "SwitchStmnt"       -> n.attribs \o <<n.selector>> \o n.cases
      [] n.type = "VarDeclStmnt"      -> <<n.varType>> \o n.varDecls
      [] n.type = "AssignStmnt"       -> <<n.varIdent, n.expr>>
      [] n.type = "ExprStmnt"         -> <<n.expr>>
      [] n.type = "FunctionCallStmnt" -> <<n.call>>
      [] n.type = "ReturnStmnt"       -> <<n.expr>>
      [] n.type = "StructDeclStmnt"   -> <<n.structure>>
      [] n.type = "ListExpr"          -> <<n.firstExpr, n.nextExpr>>
      [] n.type = "TernaryExpr"       -> <<n.condition, n.ifExpr, n.elseExpr>>
      [] n.type = "BinaryExpr"        -> <<n.lhsExpr, n.rhsExpr>>
      [] n.type = "UnaryExpr"         -> <<n.expr>>
      [] n.type = "PostUnaryExpr"     -> <<n.expr>>
      [] n.type = "FunctionCallExpr"  -> <<n.call>>
      [] n.type = "BracketExpr"       -> <<n.expr>>
      [] n.type = "CastExpr"          -> <<n.typeExpr, n.expr>>
      [] n.type = "VarAccessExpr"     -> <<n.varIdent, n.assignExpr>>
      [] n.type = "InitializerExpr"   -> n.exprs
      [] n.type = "VarSemantic"       -> <<n.packOffset>>
      [] n.type = "VarType"           -> <<n.structType>>
      [] n.type = "VarIdent"          -> n.arrayIndices \o <<n.next>>
      [] n.type = "VarDecl"           ->
             n.arrayDims \o n.semantics \o <<n.initializer>>
      [] OTHER                        -> <<>>)

\* every node of the tree rooted at n
RECURSIVE Nodes(_)
Nodes(n) ==
    IF IsNull(n) THEN {}
    ELSE {n} \cup UNION {Nodes(Children(n)[i]) : i \in 1..Len(Children(n))}

----------------------------------------------------------------------------
(* ASTPrinter: DumpAST.  L is the sequence of calls made on the Logger     *)
(* before the dump.                                                        *)

\* the children a Visit procedure of the printer visits, in its order
VisitedChildren(n) ==
    CASE n.type = "Program"           -> n.globalDecls
      [] n.type = "CodeBlock"         -> n.stmnts
      [] n.type = "FunctionCall"      -> <<n.name>> \o n.arguments
      [] n.type = "Structure"         -> n.members
      [] n.type = "SwitchCase"        -> n.stmnts
      [] n.type = "FunctionDecl"      -> n.attribs \o <<n.codeBlock>>
      [] n.type = "UniformBufferDecl" -> n.members
      [] n.type = "TextureDecl"       -> n.names
      [] n.type = "SamplerDecl"       -> n.names
      [] n.type = "StructDecl"        -> <<n.structure>>
      [] n.type = "CodeBlockStmnt"    -> <<n.codeBlock>>
      [] n.type = "ForLoopStmnt"      ->
             <<n.initSmnt, n.condition, n.iteration, n.bodyStmnt>>
      [] n.type = "WhileLoopStmnt"    -> <<n.condition, n.bodyStmnt>>
      [] n.type = "DoWhileLoopStmnt"  -> <<n.bodyStmnt, n.condition>>
      [] n.type = "IfStmnt"           -> <<n.condition, n.bodyStmnt, n.elseStmnt>>
      [] n.type = "ElseStmnt"         -> <<n.bodyStmnt>>
      [] n.type = "SwitchStmnt"       -> <<n.selector>> \o n.cases
      [] n.type = "VarDeclStmnt"      -> n.varDecls
      [] n.type = "AssignStmnt"       -> <<n.expr>>
      [] n.type = "ExprStmnt"         -> <<n.expr>>
      [] n.type = "FunctionCallStmnt" -> <<n.call>>
      [] n.type = "ReturnStmnt"       -> <<n.expr>>
      [] n.type = "StructDeclStmnt"   -> <<n.structure>>
      [] n.type = "ListExpr"          -> <<n.firstExpr, n.nextExpr>>
      [] n.type = "TernaryExpr"       -> <<n.condition, n.ifExpr, n.elseExpr>>
      [] n.type = "BinaryExpr"        -> <<n.lhsExpr, n.rhsExpr>>
      [] n.type = "UnaryExpr"         -> <<n.expr>>
      [] n.type = "PostUnaryExpr"     -> <<n.expr>>
      [] n.type = "FunctionCallExpr"  -> <<n.call>>
      [] n.type = "BracketExpr"       -> <<n.expr>>
      [] n.type = "CastExpr"          -> <<n.typeExpr>>
      [] n.type = "VarAccessExpr"     -> <<n.varIdent, n.assignExpr>>
      [] n.type = "InitializerExpr"   -> n.exprs
      [] n.type = "VarSemantic"       -> <<n.packOffset>>
      [] n.type = "VarType"           -> <<n.structType>>
      [] n.type = "VarIdent"          -> n.arrayIndices \o <<n.next>>
      [] n.type = "VarDecl"           ->
             n.arrayDims \o n.semantics \o <<n.initializer>>
      [] OTHER                        -> <<>>

\* the Visit procedures that open a SCOPED_INDENT after printing
HasScopedIndent(n) ==
    n.type \notin {"BufferDeclIdent", "DirectiveDecl", "NullStmnt",
                   "DirectiveStmnt", "CtrlTransferStmnt", "LiteralExpr",
                   "TypeNameExpr", "PackOffset"}

\* Print: log_->Info(astName + " (" + pos + ")" ...); node is the address of
\* the printed node, kept to tell the lines of two nodes of one kind apart
PrintNode(n) ==
    <<[call |-> "Info", name |-> n.type, pos |-> n.pos, node |-> n.id]>>

RECURSIVE Visit(_)
RECURSIVE VisitAll(_)

\* Variant of Visit in which the Visit procedure of a CodeBlock raises the
\* indentation and never lowers it.
VisitLeavingCodeBlockIndented(n) ==
    IF IsNull(n) THEN <<>>
    ELSE IF ~HasScopedIndent(n) THEN PrintNode(n)
    ELSE IF n.type = "CodeBlock"
    THEN PrintNode(n) \o <<[call |-> "IncIndent"]>>
             \o VisitAll(VisitedChildren(n))
    ELSE PrintNode(n) \o <<[call |-> "IncIndent"]>>
             \o VisitAll(VisitedChildren(n)) \o <<[call |-> "DecIndent"]>>

\* Visit(ast): the calls it makes on the Logger, in order; none for a null
\* pointer, else those of the node's Visit procedure
Visit(n) ==
    IF IsNull(n) THEN <<>>
    ELSE IF ~HasScopedIndent(n) THEN PrintNode(n)
    ELSE PrintNode(n) \o <<[call |-> "IncIndent"]>>
             \o VisitAll(VisitedChildren(n)) \o <<[call |-> "DecIndent"]>>

VisitAll(nodes) ==
    IF nodes = <<>> THEN <<>>
    ELSE Visit(Head(nodes)) \o VisitAll(Tail(nodes))

DumpASTLog(L, prog) == L \o Visit(prog)

----------------------------------------------------------------------------
(* The sources explored.  A behaviour submits a source to ParseSource,     *)
(* dumps the AST when there is one, and then submits the source with one   *)
(* more token.  Every source of a context is Prefix \o body \o Suffix; the *)
(* new token goes at the end of the body.  In a context that is not        *)
(* exhaustive, a source is extended only when the parser consumed its      *)
(* whole body: the parser reads left to right with one token of lookahead, *)
(* so when it stopped inside the body every longer body parses the same    *)
(* way.  An exhaustive context extends every source.                       *)

MaxTokens == 5

\* the deepest nesting of ( [ { in a source body
MaxNest == 2

tId(s)   == Tok("Ident", s)
tVoid    == Tok("Void", "void")
tFloat   == Tok("ScalarType", "float")
tStruct  == Tok("Struct", "struct")
tLB      == Tok("LBracket", "(")
tRB      == Tok("RBracket", ")")
tLC      == Tok("LCurly", "{")
tRC      == Tok("RCurly", "}")
tLP      == Tok("LParen", "[")
tRP      == Tok("RParen", "]")
tSemi    == Tok("Semicolon", ";")
tComma   == Tok("Comma", ",")
tDot     == Tok("Dot", ".")
tInt     == Tok("IntLiteral", "1")
tAssign  == Tok("AssignOp", "=")
tInc     == Tok("UnaryOp", "++")
tNot     == Tok("UnaryOp", "!")
tPlus    == Tok("BinaryOp", "+")
tMinus   == Tok("BinaryOp", "-")
tTern    == Tok("TernaryOp", "?")
tColon   == Tok("Colon", ":")
tSwitch  == Tok("Switch", "switch")
tCase    == Tok("Case", "case")
tDefault == Tok("Default", "default")
tConst   == Tok("TypeModifier", "const")
tStatic  == Tok("StorageModifier", "static")
tIn      == Tok("InputModifier", "in")

\* void f ( ) {
FunctionHead == <<tVoid, tId("f"), tLB, tRB, tLC>>

Prefix(c) ==
    CASE c = "global"  -> <<>>
      [] c = "gstruct" -> <<tStruct, tId("S"), tLC>>
      [] c = "bstruct" -> FunctionHead \o <<tStruct, tId("S"), tLC>>
      [] c = "anon"    -> FunctionHead \o <<tStruct, tLC>>
      [] c = "stmnt"   -> FunctionHead
      [] c = "delim"   -> FunctionHead
      [] c = "expr"    -> FunctionHead \o <<tId("x"), tAssign>>
      [] c = "tern"    -> FunctionHead \o <<tId("x"), tAssign>>
      [] c = "comma"   -> FunctionHead \o <<tFloat, tId("v"), tAssign>>
      [] c = "switch"  -> FunctionHead \o <<tSwitch, tLB, tId("x"), tRB, tLC>>
      [] c = "loop"    -> FunctionHead

Suffix(c) ==
    CASE c = "global"  -> <<>>
      [] c = "gstruct" -> <<>>
      [] c = "bstruct" -> <<tRC>>
      [] c = "anon"    -> <<tRC>>
      [] c = "stmnt"   -> <<tRC>>
      [] c = "delim"   -> <<tRC>>
      [] c = "expr"    -> <<tSemi, tRC>>
      [] c = "tern"    -> <<tSemi, tRC>>
      [] c = "comma"   -> <<tSemi, tRC>>
      [] c = "switch"  -> <<tRC, tRC>>
      [] c = "loop"    -> <<tRC>>

Alphabet(c) ==
    CASE c = "global" ->
             {tVoid, tFloat, tId("a"), tLB, tRB, tLC, tRC, tSemi, tComma}
      [] c \in {"gstruct", "bstruct", "anon"} ->
             {tFloat, tId("a"), tRC, tSemi, tComma}
      [] c = "stmnt"  ->
             {tId("a"), tLB, tRB, tLP, tRP, tDot, tSemi, tAssign, tInc, tNot}
      [] c = "delim"  ->
             {tId("a"), tLB, tRB, tLP, tRP, tLC, tRC, tSemi}
      [] c = "expr"   ->
             {tId("a"), tFloat, tInt, tLB, tRB, tLC, tRC, tPlus, tMinus,
              tNot, tAssign}
      [] c = "tern"   ->
             {tId("a"), tInt, tTern, tColon, tComma, tPlus, tInc}
      [] c = "comma"  ->
             {tId("a"), tLB, tRB, tComma, tAssign, tTern, tColon, tPlus}
      [] c = "switch" ->
             {tCase, tDefault, tInt, tColon, tSemi}
      [] c = "loop"   ->
             {tId("a"), tInt, tSemi, tComma, tColon, tLP, tRP, tCase,
              tDefault, tConst, tStatic, tIn}

Exhaustive(c) == c \in {"gstruct", "bstruct", "anon"}

\* the longest body explored in a context
Limit(c) ==
    CASE c \in {"global", "delim", "tern", "switch"} -> MaxTokens + 2
      [] c = "comma"                -> MaxTokens + 3
      [] c \in {"stmnt", "loop"}    -> MaxTokens + 1
      [] OTHER                      -> MaxTokens

\* the body of the source: what follows the prefix and precedes the suffix
BodyEnd == Len(src) - Len(Suffix(ctx))

Body == SubSeq(src, Len(Prefix(ctx)) + 1, BodyEnd)

\* the parser consumed the whole body
ConsumedBody == parser.cur > BodyEnd

IsOpener(t) == t.type \in {"LBracket", "LParen", "LCurly"}

IsCloser(t) == t.type \in {"RBracket", "RParen", "RCurly"}

\* the delimiters opened and not yet closed in a sequence of tokens
NestDepth(seq) ==
    Cardinality({i \in 1..Len(seq) : IsOpener(seq[i])})
        - Cardinality({i \in 1..Len(seq) : IsCloser(seq[i])})

InitCtx(c) ==
    /\ ctx = c
    /\ src = Prefix(c) \o Suffix(c)
    /\ phase = "scan"
    /\ program = Null
    /\ parser = NewParser(src)
    /\ log = <<>>

\* a new source is submitted: the previous one with one more token in its body
NewSource(t) ==
    /\ phase \in {"parsed", "dumped"}
    /\ ConsumedBody \/ Exhaustive(ctx)
    /\ Len(Body) < Limit(ctx)
    /\ IsOpener(t) => NestDepth(Body) < MaxNest
    /\ src' = Prefix(ctx) \o Append(Body, t) \o Suffix(ctx)
    /\ phase' = "scan"
    /\ program' = Null
    /\ parser' = NewParser(src')
    /\ log' = <<>>
    /\ UNCHANGED ctx

\* ParseSource(source), with a logger attached
ParseSource ==
    /\ phase = "scan"
    /\ LET r == RunParser(src)
       IN  /\ program' = ParseSourceResult(r)
           /\ parser' = r.p
           /\ log' = log \o ParseSourceLog(r)
    /\ phase' = "parsed"
    /\ UNCHANGED <<src, ctx>>

\* DumpAST(program, log)
DumpAST ==
    /\ phase = "parsed"
    /\ ~IsNull(program)
    /\ log' = DumpASTLog(log, program)
    /\ phase' = "dumped"
    /\ UNCHANGED <<src, program, parser, ctx>>

Next ==
    \/ \E t \in Alphabet(ctx) : NewSource(t)
    \/ ParseSource
    \/ DumpAST

Init == InitCtx("global")

Spec == Init /\ [][Next]_vars

InitStruct == \E c \in {"gstruct", "bstruct", "anon"} : InitCtx(c)

SpecStruct == InitStruct /\ [][Next]_vars

InitStmnt == InitCtx("stmnt")

SpecStmnt == InitStmnt /\ [][Next]_vars

InitDelim == InitCtx("delim")

SpecDelim == InitDelim /\ [][Next]_vars

InitExpr == InitCtx("expr")

SpecExpr == InitExpr /\ [][Next]_vars

InitTern == InitCtx("tern")

SpecTern == InitTern /\ [][Next]_vars

InitComma == InitCtx("comma")

SpecComma == InitComma /\ [][Next]_vars

InitSwitch == InitCtx("switch")

SpecSwitch == InitSwitch /\ [][Next]_vars

InitLoop == InitCtx("loop")

SpecLoop == InitLoop /\ [][Next]_vars

----------------------------------------------------------------------------
(* Vocabulary of the properties *)

Parsed == phase \in {"parsed", "dumped"}

\* ParseSource returned a Program
Accepted == Parsed /\ ~IsNull(program)

\* the parser inside ParseProgram, before the first ParseGlobalDecl
GlobalStart(source) == Make(AcceptIt(NewParser(source)).p).p

\* the parser inside the body of a function with the head  void f ( ) { ,
\* before the first ParseStmnt of ParseStmntList
StmntStart(source) ==
    LET m  == Make(GlobalStart(source))
        r1 == ParseAttributeList(m.p, <<>>)
        r2 == ParseVarType(r1.p, TRUE)
        r3 == Accept(r2.p, "Ident")
        r4 == ParseParameterList(r3.p)
        mc == Make(r4.p)
    IN  Accept(mc.p, "LCurly").p

\* the parser after  x =  of an assignment statement, before ParseExpr
ExprStart(source) ==
    LET rv == ParseVarIdent(StmntStart(source))
        m  == Make(rv.p)
    IN  AcceptIt(m.p).p

\* the statements of the body of the first global declaration
BodyStmnts == program.globalDecls[1].codeBlock.stmnts

HasToken(seq, t) == \E i \in 1..Len(seq) : seq[i] = t

----------------------------------------------------------------------------
(* C1: after a successful parse, every VarDecl in the varDecls of a        *)
(* VarDeclStmnt has declStmntRef equal to that statement, however the      *)
(* statement was produced.                                                 *)
C1_DeclStmntRefOfEveryVarDecl ==
    Accepted =>
        \A s \in Nodes(program) :
            s.type = "VarDeclStmnt" =>
                \A i \in 1..Len(s.varDecls) : s.varDecls[i].declStmntRef = s.id

(* C2: after a successful parse, every VarType with a structType has       *)
(* symbolRef pointing to that Structure, and every VarType has exactly one *)
(* of baseType and structType populated.                                   *)
C2_SymbolRefOfEveryStructType ==
    Accepted =>
        \A t \in Nodes(program) :
            t.type = "VarType" =>
                /\ ~IsNull(t.structType) => t.symbolRef = t.structType.id
                /\ (t.baseType # "") # (~IsNull(t.structType))

(* C3: an anonymous struct is accepted:  struct { members } v ;  in        *)
(* statement position parses to a VarDeclStmnt whose varType.structType    *)
(* has an empty name and the members, and whose varDecls is [VarDecl v].   *)
(* The members are those the same text with a name after struct has.       *)
NamedVariant ==
    RunParser(FunctionHead \o <<tStruct, tId("S"), tLC>> \o Body \o Suffix(ctx))

C3_AnonymousStructCase ==
    /\ ctx = "anon"
    /\ phase = "parsed"
    /\ Len(Body) >= 3
    /\ Body[Len(Body)] = tSemi
    /\ Body[Len(Body) - 1].type = "Ident"
    /\ Body[Len(Body) - 2] = tRC
    /\ ~NamedVariant.p.err
    /\ Len(NamedVariant.v.globalDecls[1].codeBlock.stmnts) = 1

C3_AnonymousStructAccepted ==
    C3_AnonymousStructCase =>
        /\ ~IsNull(program)
        /\ Len(BodyStmnts) = 1
        /\ LET s == BodyStmnts[1]
               n == NamedVariant.v.globalDecls[1].codeBlock.stmnts[1]
           IN  /\ s.type = "VarDeclStmnt"
               /\ ~IsNull(s.varType.structType)
               /\ s.varType.structType.name = ""
               /\ Len(s.varType.structType.members)
                      = Len(n.varType.structType.members)
               /\ Len(s.varDecls) = 1
               /\ s.varDecls[1].name = Body[Len(Body) - 1].spell

----------------------------------------------------------------------------
(* C4: the parser rejects every token sequence whose delimiters { } ( )    *)
(* [ ] are not balanced and properly nested.                               *)

Closer(type) ==
    CASE type = "LCurly"   -> "RCurly"
      [] type = "LBracket" -> "RBracket"
      [] type = "LParen"   -> "RParen"

RECURSIVE BalancedFrom(_, _, _)
BalancedFrom(seq, i, stack) ==
    IF i > Len(seq) THEN stack = <<>>
    ELSE IF seq[i].type \in {"LCurly", "LBracket", "LParen"}
    THEN BalancedFrom(seq, i + 1, <<Closer(seq[i].type)>> \o stack)
    ELSE IF seq[i].type \in {"RCurly", "RBracket", "RParen"}
    THEN /\ stack # <<>>
         /\ Head(stack) = seq[i].type
         /\ BalancedFrom(seq, i + 1, Tail(stack))
    ELSE BalancedFrom(seq, i + 1, stack)

Balanced(seq) == BalancedFrom(seq, 1, <<>>)

C4_UnbalancedRejected == (Parsed /\ ~Balanced(src)) => IsNull(program)

\* an accepted source with a call inside an array index inside the block
C4_Witness ==
    /\ Accepted
    /\ HasToken(Body, tLP)
    /\ HasToken(Body, tLB)
    /\ Balanced(src)

----------------------------------------------------------------------------
(* C5: in  (E) X  ParseBracketOrCastExpr returns a CastExpr if and only if *)
(* the token after ) can start a primary expression (a literal, a data     *)
(* type keyword, a unary operator or -, ( , { , an identifier) and E is a  *)
(* TypeNameExpr or a VarAccessExpr without assignExpr; otherwise it        *)
(* returns a BracketExpr wrapping E.                                       *)

\* the tokens on which ParsePrimaryExpr begins an alternative
StartsPrimaryExpr(t) ==
    \/ t.type \in {"BoolLiteral", "IntLiteral", "FloatLiteral"}
    \/ t.type \in {"ScalarType", "VectorType", "MatrixType", "Texture", "Sampler"}
    \/ t.type = "UnaryOp"
    \/ (t.type = "BinaryOp" /\ t.spell = "-")
    \/ t.type \in {"LBracket", "LCurly", "Ident"}

C5_CastIffTypeFormBeforePrimary ==
    (ctx = "expr" /\ Parsed /\ Body # <<>> /\ Body[1] = tLB) =>
        LET p  == ExprStart(src)
            r2 == ParseExpr(Accept(p, "LBracket").p, TRUE, Null)
            p3 == Accept(r2.p, "RBracket").p
            r  == ParseBracketOrCastExpr(p)
        IN  (~p3.err /\ ~r.p.err) =>
                IF StartsPrimaryExpr(Tkn(p3)) /\ IsTypeForm(r2.v)
                THEN r.v.type = "CastExpr"
                ELSE r.v.type = "BracketExpr" /\ r.v.expr = r2.v

----------------------------------------------------------------------------
(* Statements that begin with an identifier *)

\* the case of a statement that begins with an identifier: the body of the
\* function starts with a path that ParseVarIdent parses
IdentStmntCase ==
    /\ ctx = "stmnt"
    /\ Parsed
    /\ Body # <<>>
    /\ Body[1].type = "Ident"
    /\ ~ParseVarIdent(StmntStart(src)).p.err

\* the path and the parser after it
Path == ParseVarIdent(StmntStart(src))

\* the statement ParseStmnt produces at the start of the body
Stmnt == ParseStmnt(StmntStart(src))

\* the expression an expression statement was built on: the innermost
\* operand that ParseExpr was handed as initExpr
RECURSIVE BaseExpr(_)
BaseExpr(e) ==
    CASE e.type = "ListExpr"      -> BaseExpr(e.firstExpr)
      [] e.type = "TernaryExpr"   -> BaseExpr(e.condition)
      [] e.type = "BinaryExpr"    -> BaseExpr(e.lhsExpr)
      [] e.type = "PostUnaryExpr" -> BaseExpr(e.expr)
      [] OTHER -> e

(* C6: a statement that begins with an identifier path followed by ( is    *)
(* always a FunctionCallStmnt whose call.name is the path already parsed;  *)
(* it is never an expression statement wrapping a FunctionCallExpr.        *)
C6_PathThenBracketIsFunctionCallStmnt ==
    (IdentStmntCase /\ Is(Path.p, "LBracket")) =>
        /\ ~Stmnt.p.err =>
              /\ Stmnt.v.type = "FunctionCallStmnt"
              /\ Stmnt.v.call.type = "FunctionCall"
              /\ Stmnt.v.call.name = Path.v
        /\ Accepted => BodyStmnts[1] = Stmnt.v

\* a . a ( ) ;  accepted: a call on a dotted path
C6_Witness ==
    /\ IdentStmntCase
    /\ Is(Path.p, "LBracket")
    /\ Accepted
    /\ BodyStmnts[1].type = "FunctionCallStmnt"
    /\ ~IsNull(BodyStmnts[1].call.name.next)

(* C7: a statement that begins with an identifier path not followed by (   *)
(* is: with an assignment operator next, an AssignStmnt on the path; with  *)
(* ++ or -- next, an expression statement built on a VarAccessExpr that    *)
(* wraps the path; otherwise a VarDeclStmnt whose type name is the         *)
(* identifier, with at least one VarDecl, when the path has no dotted      *)
(* continuation, and a parse failure when it has one.                      *)
C7_PathThenOtherToken ==
    (IdentStmntCase /\ ~Is(Path.p, "LBracket")) =>
        /\ Accepted => BodyStmnts[1] = Stmnt.v
        /\ IF Is(Path.p, "AssignOp")
           THEN ~Stmnt.p.err =>
                    /\ Stmnt.v.type = "AssignStmnt"
                    /\ Stmnt.v.varIdent = Path.v
                    /\ Stmnt.v.op = Tkn(Path.p).spell
           ELSE IF IsSpell(Path.p, "UnaryOp", "++") \/ IsSpell(Path.p, "UnaryOp", "--")
           THEN ~Stmnt.p.err =>
                    /\ Stmnt.v.type = "ExprStmnt"
                    /\ BaseExpr(Stmnt.v.expr).type = "VarAccessExpr"
                    /\ BaseExpr(Stmnt.v.expr).varIdent = Path.v
                    /\ IsNull(BaseExpr(Stmnt.v.expr).assignExpr)
           ELSE IF IsNull(Path.v.next)
           THEN ~Stmnt.p.err =>
                    /\ Stmnt.v.type = "VarDeclStmnt"
                    /\ Stmnt.v.varType.baseType = Path.v.ident
                    /\ IsNull(Stmnt.v.varType.structType)
                    /\ Len(Stmnt.v.varDecls) >= 1
           ELSE /\ Stmnt.p.err
                /\ Stmnt.p.errCur = Path.p.cur

\* a . a = a ;  accepted: an assignment to a dotted path
C7_Witness ==
    /\ IdentStmntCase
    /\ Is(Path.p, "AssignOp")
    /\ Accepted
    /\ BodyStmnts[1].type = "AssignStmnt"
    /\ ~IsNull(BodyStmnts[1].varIdent.next)

\* a . a a  : a dotted path followed by a declarator is refused
C7_DottedPathRefused ==
    /\ IdentStmntCase
    /\ ~IsNull(Path.v.next)
    /\ Is(Path.p, "Ident")
    /\ Stmnt.p.err

----------------------------------------------------------------------------
(* C8: when an Accept or a parsing predicate fails, ParseSource has logged *)
(* exactly one error, returns no Program, and the parser position is the   *)
(* token of the failing check: nothing was fetched after it.               *)
C8_OneErrorNoProgramNoFetch ==
    phase = "parsed" =>
        /\ IsNull(program) <=> parser.err
        /\ parser.err =>
              /\ parser.cur = parser.errCur
              /\ Len(log) = 1
              /\ log[1].call = "Error"
              /\ log[1].msg = parser.msg
        /\ ~parser.err => log = <<>>

\* a failure in the middle of the source, after tokens were consumed
C8_Witness ==
    /\ phase = "parsed"
    /\ parser.err
    /\ parser.errCur > 3
    /\ parser.errCur <= Len(src)
    /\ IsNull(program)

----------------------------------------------------------------------------
(* C9: for any AST the parser produced, the printer emits exactly one Info *)
(* line for every node reachable from the Program, the line of a parent    *)
(* before the lines of its descendants.                                    *)
InfoLines(n) ==
    {i \in 1..Len(log) : log[i].call = "Info" /\ log[i].node = n.id}

C9_OneInfoLinePerNode ==
    phase = "dumped" =>
        \A n \in Nodes(program) :
            /\ Cardinality(InfoLines(n)) = 1
            /\ \A c \in Nodes(n) \ {n} :
                   \A i \in InfoLines(n) : \A j \in InfoLines(c) : i < j

----------------------------------------------------------------------------
(* C10: struct Name { ... } as a top-level or block statement              *)

\* the parser where the declaration begins, and the declaration parsed there
DeclStart == IF ctx = "gstruct" THEN GlobalStart(src) ELSE StmntStart(src)

Decl == IF ctx = "gstruct" THEN ParseGlobalDecl(DeclStart) ELSE ParseStmnt(DeclStart)

\* the structure, and the parser after its closing brace; the declaration
\* node is made before the structure is parsed
Struct == ParseStructure(Make(DeclStart).p)

\* the declarators and the semicolon after the structure
Declarators == ParseVarDeclList(Struct.p, <<>>)

VarDeclNames(varDecls) == [i \in 1..Len(varDecls) |-> varDecls[i].name]

StructCase ==
    /\ ctx \in {"gstruct", "bstruct"}
    /\ Parsed
    /\ ~Struct.p.err

\* followed by ; : a struct declaration
StructThenSemicolon ==
    /\ ~Decl.p.err
    /\ Decl.v.type = (IF ctx = "gstruct" THEN "StructDecl" ELSE "StructDeclStmnt")
    /\ Decl.v.structure = Struct.v
    /\ Decl.p.cur = Struct.p.cur + 1

\* followed by anything else: continued as  VarDeclList ;
StructThenDeclarators ==
    /\ Decl.p.err <=> Semi(Declarators.p).err
    /\ ~Decl.p.err =>
          /\ Decl.v.type = "VarDeclStmnt"
          /\ Decl.v.varType.structType = Struct.v
          /\ Len(Decl.v.varDecls) >= 1
          /\ VarDeclNames(Decl.v.varDecls) = VarDeclNames(Declarators.v)

(* C10 as stated: at top level and in a block alike, followed by ; the     *)
(* structure yields a struct declaration, and followed by anything else it *)
(* is continued as  VarDeclList ;  and yields a VarDeclStmnt whose         *)
(* varType.structType is the structure just parsed.                        *)
C10_StructThenSemicolonOrDeclarators ==
    StructCase =>
        IF Is(Struct.p, "Semicolon") THEN StructThenSemicolon
        ELSE StructThenDeclarators

(* C10 amended: in a block the rule holds as stated; at top level the      *)
(* structure followed by ; yields a StructDecl and followed by anything    *)
(* else is a parse error at that token.                                    *)
C10_BlockDeclaratorsGlobalSemicolonOnly ==
    StructCase =>
        IF Is(Struct.p, "Semicolon") THEN StructThenSemicolon
        ELSE IF ctx = "bstruct" THEN StructThenDeclarators
        ELSE Decl.p.err /\ Decl.p.errCur = Struct.p.cur

\* struct S { } a , a ;  accepted in a block
C10_Witness ==
    /\ StructCase
    /\ ctx = "bstruct"
    /\ ~Is(Struct.p, "Semicolon")
    /\ Accepted
    /\ BodyStmnts[1].type = "VarDeclStmnt"
    /\ BodyStmnts[1].varType.structType.name = "S"
    /\ Len(BodyStmnts[1].varDecls) = 2

\* struct S { } a ;  at top level: refused at the declarator
C10_GlobalDeclaratorRefused ==
    /\ StructCase
    /\ ctx = "gstruct"
    /\ Is(Struct.p, "Ident")
    /\ ~Semi(Declarators.p).err
    /\ Decl.p.err

----------------------------------------------------------------------------
(* Expressions after  x =  *)

\* ParseExpr(allowComma) on the expression after  x =
ExprOf(allowComma) == ParseExpr(ExprStart(src), allowComma, Null)

\* the expression of the assignment statement  x = ... ;
AssignedExpr == BodyStmnts[1].expr

(* C11: where commas are allowed, a comma list may follow a ternary or a   *)
(* binary expression at the same level:  c ? a : b , d  parses to a        *)
(* ListExpr whose firstExpr is the TernaryExpr, and the comma is consumed  *)
(* by the same ParseExpr call.                                             *)

\* the expression up to a comma is a ternary or a binary expression
C11_CommaAfterTernaryOrBinary ==
    /\ ctx = "tern"
    /\ Parsed
    /\ ~ExprOf(FALSE).p.err
    /\ ExprOf(FALSE).v.type \in {"TernaryExpr", "BinaryExpr"}
    /\ Is(ExprOf(FALSE).p, "Comma")

C11_CommaListAfterTernaryOrBinary ==
    C11_CommaAfterTernaryOrBinary =>
        /\ ExprOf(TRUE).p.cur > ExprOf(FALSE).p.cur
        /\ ~ExprOf(TRUE).p.err =>
               /\ ExprOf(TRUE).v.type = "ListExpr"
               /\ ExprOf(TRUE).v.firstExpr.type = ExprOf(FALSE).v.type

----------------------------------------------------------------------------
(* C12: binary operators are right-associative without precedence:         *)
(* a op1 b op2 c  yields BinaryExpr{a, op1, BinaryExpr{b, op2, c}}, and    *)
(* the lhs of a BinaryExpr is never a BinaryExpr, TernaryExpr or ListExpr. *)

IsOperand(t) == t.type \in {"Ident", "IntLiteral"}

\* expression e is the operand written as token t
OperandIs(e, t) ==
    IF t.type = "IntLiteral"
    THEN e.type = "LiteralExpr" /\ e.literal = t.spell
    ELSE e.type = "VarAccessExpr" /\ e.varIdent.ident = t.spell

\* the body is  a op1 b op2 c
TwoBinaryOps ==
    /\ Len(Body) = 5
    /\ IsOperand(Body[1]) /\ IsOperand(Body[3]) /\ IsOperand(Body[5])
    /\ Body[2].type = "BinaryOp"
    /\ Body[4].type = "BinaryOp"

C12_BinaryRightAssociative ==
    (ctx = "expr" /\ Accepted) =>
        /\ \A n \in Nodes(program) :
               n.type = "BinaryExpr" =>
                   n.lhsExpr.type \notin {"BinaryExpr", "TernaryExpr", "ListExpr"}
        /\ TwoBinaryOps =>
               /\ AssignedExpr.type = "BinaryExpr"
               /\ AssignedExpr.op = Body[2].spell
               /\ OperandIs(AssignedExpr.lhsExpr, Body[1])
               /\ AssignedExpr.rhsExpr.type = "BinaryExpr"
               /\ AssignedExpr.rhsExpr.op = Body[4].spell
               /\ OperandIs(AssignedExpr.rhsExpr.lhsExpr, Body[3])
               /\ OperandIs(AssignedExpr.rhsExpr.rhsExpr, Body[5])

\* x = a + a - a ;
C12_Witness ==
    /\ ctx = "expr"
    /\ Accepted
    /\ TwoBinaryOps
    /\ Body[2] = tPlus
    /\ Body[4] = tMinus
    /\ Body[1] = tInt
    /\ Body[5] = tId("a")
    /\ AssignedExpr.rhsExpr.op = "-"

----------------------------------------------------------------------------
(* C13: every PostUnaryExpr of a parsed AST has op ++ or -- ; a ! or ~     *)
(* after a primary expression is not accepted as a postfix operator.       *)
C13_PostUnaryOpIsIncOrDec ==
    Accepted =>
        \A n \in Nodes(program) :
            n.type = "PostUnaryExpr" => n.op \in {"++", "--"}

----------------------------------------------------------------------------
(* C14: the pos of every node is the position of the first token of the    *)
(* text the node covers, also for the nodes made after their first token   *)
(* was consumed.  Hence no node lies after a node beneath it, and a        *)
(* statement built from an identifier path lies at the path.               *)
C14_PosIsFirstToken ==
    Accepted =>
        \A n \in Nodes(program) :
            /\ \A c \in Nodes(n) : n.pos <= c.pos
            /\ n.type = "FunctionCallStmnt" => n.pos = n.call.name.pos
            /\ n.type = "AssignStmnt" => n.pos = n.varIdent.pos

----------------------------------------------------------------------------
(* C15: in the AST of a successful parse every node is held by exactly one *)
(* child slot of one parent, also the Structure that                       *)
(* ParseStructDeclOrVarDeclStmnt hands from the StructDeclStmnt to the     *)
(* VarType.                                                                *)

\* the nodes held by the child slots beneath n, one entry for each slot
RECURSIVE HeldNodes(_)
RECURSIVE HeldNodesOfAll(_)
HeldNodes(n) == <<n.id>> \o HeldNodesOfAll(Children(n))

HeldNodesOfAll(nodes) ==
    IF nodes = <<>> THEN <<>>
    ELSE HeldNodes(Head(nodes)) \o HeldNodesOfAll(Tail(nodes))

----------------------------------------------------------------------------
(* C16: a switch body parses into SwitchCases in source order, each with   *)
(* exactly the statements between its label and the next case, default or  *)
(* closing brace; a case carries its label expression and default has a    *)
(* null expr.                                                              *)

\* the positions in the body of the tokens case and default
Labels == {i \in 1..Len(Body) : Body[i].type \in {"Case", "Default"}}

\* the position of the k-th label
Label(k) == CHOOSE i \in Labels : Cardinality({j \in Labels : j < i}) = k - 1

\* the position after the statements of the label at i
EndOfCase(i) ==
    IF \E j \in Labels : j > i
    THEN CHOOSE j \in Labels : j > i /\ \A h \in Labels : h > i => j <= h
    ELSE Len(Body) + 1

\* the statement terminators between the label at i and the end of its case
Terminators(i) == {j \in (i + 1)..(EndOfCase(i) - 1) : Body[j] = tSemi}

SwitchCases == BodyStmnts[1].cases

C16_SwitchCasesInSourceOrder ==
    (ctx = "switch" /\ Accepted) =>
        /\ BodyStmnts[1].type = "SwitchStmnt"
        /\ Len(SwitchCases) = Cardinality(Labels)
        /\ \A k \in 1..Len(SwitchCases) :
               /\ SwitchCases[k].type = "SwitchCase"
               /\ SwitchCases[k].pos = Len(Prefix(ctx)) + Label(k)
               /\ Len(SwitchCases[k].stmnts) = Cardinality(Terminators(Label(k)))
               /\ IF Body[Label(k)] = tDefault
                  THEN IsNull(SwitchCases[k].expr)
                  ELSE /\ SwitchCases[k].expr.type = "LiteralExpr"
                       /\ SwitchCases[k].expr.literal = Body[Label(k) + 1].spell

\* switch (x) { case 1 : default : ; }
C16_Witness ==
    /\ ctx = "switch"
    /\ Accepted
    /\ Body = <<tCase, tInt, tColon, tDefault, tColon, tSemi>>
    /\ Len(SwitchCases) = 2
    /\ SwitchCases[1].stmnts = <<>>
    /\ Len(SwitchCases[2].stmnts) = 1

----------------------------------------------------------------------------
(* C17: the parser reads the tokens strictly forward with one token of     *)
(* lookahead: AcceptIt advances by one token, a failed Accept does not     *)
(* advance, nothing is read again, and ParseSource returns a Program only  *)
(* when the current token is EndOfStream, every token having been          *)
(* consumed once in source order.                                          *)

\* the token types a check is tried with
TokenTypes == {t.type : t \in Alphabet(ctx)} \cup {"EndOfStream", "Colon"}

C17_ForwardOnePass ==
    Parsed =>
        /\ parser.cur \in 1..(Len(src) + 1)
        /\ ~parser.err => AcceptIt(parser).p.cur = parser.cur + 1
        /\ \A type \in TokenTypes :
               Type(parser) # type => Accept(parser, type).p.cur = parser.cur
        /\ Accepted =>
               /\ Tkn(parser) = EOS
               /\ parser.cur = Len(src) + 1
               /\ \A n, m \in Nodes(program) : n.id < m.id => n.pos <= m.pos

\* void a ( ) { }  is accepted: six tokens consumed, EndOfStream current
C17_Witness ==
    /\ ctx = "global"
    /\ Accepted
    /\ Len(src) = 6
    /\ src[5] = tLC
    /\ parser.cur = 7

----------------------------------------------------------------------------
(* C18: every iteration of every list-parsing loop (global declarations,   *)
(* statements, struct members, switch cases and their statements,          *)
(* modifiers, array dimensions, attributes, semantics, comma-separated     *)
(* lists) either consumes at least one token or raises an error, wherever  *)
(* in the source it starts, EndOfStream included; so ParseSource ends with *)
(* a Program or with a failure.                                            *)

\* a parser whose current token is the i-th token of the source
ParserAt(i) == [NewParser(src) EXCEPT !.cur = i]

\* one iteration that parses an element from the i-th token
Progress(i, name, a) ==
    LET r == Call(name, ParserAt(i), a)
    IN  r.p.err \/ r.p.cur > i

\* one iteration of a loop that parses an element and continues at a comma
ProgressToComma(i, name, a) ==
    LET r == Call(name, ParserAt(i), a)
    IN  ~r.p.err /\ Is(r.p, "Comma") => AcceptIt(r.p).p.cur > i

IsModifier(p) == Type(p) \in {"InputModifier", "TypeModifier", "StorageModifier"}

C18_LoopIterationsProgress ==
    phase = "parsed" =>
        /\ IsNull(program) \/ parser.cur = Len(src) + 1
        /\ \A i \in 1..(Len(src) + 1) :
             LET p == ParserAt(i)
             IN  /\ ~Is(p, "EndOfStream") => Progress(i, "ParseGlobalDecl", <<>>)
                 /\ ~Is(p, "RCurly") => Progress(i, "ParseStmnt", <<>>)
                 /\ ~Is(p, "RCurly") => Progress(i, "ParseVarDeclStmnt", <<>>)
                 /\ Is(p, "Case") \/ Is(p, "Default") =>
                        Progress(i, "ParseSwitchCase", <<>>)
                 /\ Is(p, "LParen") => Progress(i, "ParseArrayDimension", <<>>)
                 /\ Is(p, "LParen") => Progress(i, "ParseAttribute", <<>>)
                 /\ Is(p, "Colon") => Progress(i, "ParseVarSemantic", <<>>)
                 /\ IsModifier(p) => AcceptIt(p).p.cur > i
                 /\ ProgressToComma(i, "ParseVarDecl", <<>>)
                 /\ ProgressToComma(i, "ParseParameter", <<>>)
                 /\ ProgressToComma(i, "ParseExpr", <<FALSE, Null>>)
                 /\ ProgressToComma(i, "ParseBufferDeclIdent", <<>>)

\* void f ( ) { a a [ 1 ] ; }  is accepted: the array dimension parsed from
\* `[` takes three tokens, and a statement parsed at EndOfStream raises
C18_Witness ==
    /\ ctx = "loop"
    /\ phase = "parsed"
    /\ Body = <<tId("a"), tId("a"), tLP, tInt, tRP, tSemi>>
    /\ ~IsNull(program)
    /\ ParseArrayDimension(ParserAt(8)).p.cur = 11
    /\ ~ParseArrayDimension(ParserAt(8)).p.err
    /\ ParseStmnt(ParserAt(Len(src) + 1)).p.err

----------------------------------------------------------------------------
(* C19: during DumpAST the IncIndent and DecIndent calls are properly      *)
(* nested: at no point have there been more DecIndent than IncIndent       *)
(* calls, each line is emitted at a level equal to the number of printed   *)
(* ancestors of its node, and at the end the level is the one on entry.    *)

\* the calls DumpAST made on the Logger: ParseSource logged nothing when it
\* returned a Program
DumpCalls == log

CountCalls(k, call) == Cardinality({j \in 1..k : DumpCalls[j].call = call})

\* the indentation after the first k calls, relative to that on entry
IndentLevel(k) == CountCalls(k, "IncIndent") - CountCalls(k, "DecIndent")

IsPrinted(n) == \E j \in 1..Len(DumpCalls) :
                    DumpCalls[j].call = "Info" /\ DumpCalls[j].node = n.id

\* the printed nodes that hold the node with this address below them
PrintedAncestors(id) ==
    {a \in Nodes(program) :
        /\ a.id # id
        /\ IsPrinted(a)
        /\ \E n \in Nodes(a) : n.id = id}

C19_IndentProperlyNested ==
    phase = "dumped" =>
        /\ \A k \in 0..Len(DumpCalls) : IndentLevel(k) >= 0
        /\ IndentLevel(Len(DumpCalls)) = 0
        /\ \A k \in 1..Len(DumpCalls) :
               DumpCalls[k].call = "Info" =>
                   IndentLevel(k - 1) = Cardinality(PrintedAncestors(DumpCalls[k].node))

\* void f ( ) { a a [ 1 ] ; }  is dumped with a line three levels deep, after
\* an indentation has been closed and before another line
C19_Witness ==
    /\ ctx = "loop"
    /\ phase = "dumped"
    /\ \E k \in 1..Len(DumpCalls) :
           /\ DumpCalls[k].call = "Info"
           /\ IndentLevel(k - 1) >= 3
    /\ \E k \in 2..Len(DumpCalls) :
           /\ DumpCalls[k].call = "Info"
           /\ DumpCalls[k - 1].call = "DecIndent"

----------------------------------------------------------------------------
(* C20: ParseExpr called with allowComma = false consumes no comma outside *)
(* of a nested bracket, brace or argument list; so a call with n           *)
(* comma-separated arguments has n entries in FunctionCall.arguments, none *)
(* a ListExpr, and a declaration statement has one VarDecl more than it    *)
(* has commas outside of brackets.                                         *)

\* the commas of a token sequence that no delimiter of the sequence encloses
TopLevelCommas(seq) ==
    {k \in 1..Len(seq) :
        seq[k] = tComma /\ NestDepth(SubSeq(seq, 1, k - 1)) = 0}

\* the commas of a token sequence enclosed by its first delimiter only
ArgumentCommas(seq) ==
    {k \in 1..Len(seq) :
        seq[k] = tComma /\ NestDepth(SubSeq(seq, 1, k - 1)) = 1}

\* the body is a call  a ( ... )  closed by its last token
BodyIsCall ==
    /\ Len(Body) >= 3
    /\ Body[1] = tId("a")
    /\ Body[2] = tLB
    /\ Body[Len(Body)] = tRB
    /\ \A k \in 2..(Len(Body) - 1) : NestDepth(SubSeq(Body, 1, k)) >= 1

\* the declaration statement  float v = ... ;  of the function body
DeclStmnt == BodyStmnts[1]

C20_NoCommaWithoutAllowComma ==
    ctx = "comma" /\ phase = "parsed" =>
        /\ \A i \in (Len(Prefix(ctx)) + 1)..BodyEnd :
               LET r == ParseExpr(ParserAt(i), FALSE, Null)
               IN  ~r.p.err =>
                       TopLevelCommas(SubSeq(src, i, r.p.cur - 1)) = {}
        /\ Accepted =>
               /\ Len(DeclStmnt.varDecls) = Cardinality(TopLevelCommas(Body)) + 1
               /\ \A n \in Nodes(program) :
                      n.type = "FunctionCall" =>
                          \A k \in 1..Len(n.arguments) :
                              n.arguments[k].type # "ListExpr"
               /\ BodyIsCall =>
                      /\ DeclStmnt.varDecls[1].initializer.type = "FunctionCallExpr"
                      /\ Len(DeclStmnt.varDecls[1].initializer.call.arguments)
                             = IF Len(Body) = 3 THEN 0
                               ELSE Cardinality(ArgumentCommas(Body)) + 1

\* float v = a ( a , a ) , a ;  two arguments and two VarDecls
C20_Witness ==
    /\ ctx = "comma"
    /\ Accepted
    /\ Body = <<tId("a"), tLB, tId("a"), tComma, tId("a"), tRB, tComma, tId("a")>>
    /\ Len(DeclStmnt.varDecls) = 2
    /\ Len(DeclStmnt.varDecls[1].initializer.call.arguments) = 2

============================================================================
